---- MODULE Spec2Model ----
(***************************************************************************)
(* Model of the tsclientlib / tsproto connection core:                     *)
(*   - the resender (tsproto/src/resend.rs): DefaultResender, its states,  *)
(*     its sink side (start_send), ack handling and the ResendFuture;      *)
(*   - the receive window of ConnectedParams (tsproto/src/connection.rs);  *)
(*   - the ConnectionManager of tsclientlib (tsclientlib/src/lib.rs).      *)
(*                                                                         *)
(* Time.  chrono time stamps (start_time, SendRecord.sent, .last) are kept *)
(* as the time elapsed since the stamp, i.e. the value of `now - stamp`;   *)
(* `stamp = now` is the value 0 and Tick adds TickLen to every stamp.      *)
(* Durations are integers; one Tick is TickLen duration units.             *)
(***************************************************************************)
EXTENDS Integers, Sequences, FiniteSets, TLC

\* ------------------------------------------------------------------ bounds
\* Elapsed times saturate after MaxAge ticks.
MaxAge == 2
\* SendRecord.tries saturates at MaxTries.
MaxTries == 2
\* Packets handed to the resender in one run, without and with the clock.
MaxPackets == 3
MaxTimedPackets == 2
\* handle_event calls in one run.
MaxEvents == 2

\* ------------------------------------------------------- resender: config
\* The ResendConfig the resender is created with: the shape of
\* ResendConfig::default (srtt = normal_timeout / 4, srtt_dev = 0, every
\* interval shorter than its timeout) with short durations.
SmallConfig ==
    [ connecting_interval |-> 16,
      connecting_timeout  |-> 32,
      normal_timeout      |-> 32,
      stalling_interval   |-> 16,
      stalling_timeout    |-> 32,
      dead_timeout        |-> 16,
      disconnect_timeout  |-> 32,
      disconnect_interval |-> 16,
      srtt                |-> 8,
      srtt_dev            |-> 0,
      max_send_queue_len  |-> 2 ]

PacketTypes == {"Command", "CommandLow"}
Producers == {"p1", "p2"}
NoItem == [p_type |-> "None", p_id |-> 0]

VARIABLES
    \* DefaultResender
    config,                \* its ResendConfig
    state,                 \* name of the ResendStates variant
    to_send,               \* its to_send (heap or vector) as a sequence
    start_time,            \* its start_time, as elapsed time
    srtt, srtt_dev,
    resender_task,         \* parked producer tasks
    resender_future_task,  \* TRUE when Some(task)
    \* ResendFuture and its task
    fut_notified,          \* the task of the future is scheduled for a poll
    fut_done,              \* the future has resolved
    timeout, state_timeout,\* ticks until the timer fires, -1 = not armed
    is_sending,
    sink_wait,             \* the udp sink owes the future a notification
    con_alive,             \* the Connection still exists
    \* environment of the resender
    pstate, pitem,         \* producer tasks and the item each holds
    next_id,               \* next packet id per packet type
    events,                \* number of handle_event calls so far
    \* observation
    wire,                  \* keys of packets ever put on the udp sink
    sent_now,              \* keys put on the udp sink by the last poll, in order
    slot,                  \* per producer: "freed" once an ack removed a record
                           \* while it was parked, "taken" once another
                           \* start_send was accepted after that ack,
                           \* "accepted" once its retry went into the slot
    op                     \* the last operation and its result

rvars == << config, state, to_send, start_time, srtt, srtt_dev, resender_task,
            resender_future_task, fut_notified, fut_done, timeout,
            state_timeout, is_sending, sink_wait, con_alive, pstate, pitem,
            next_id, events, wire, sent_now, slot, op >>

VARIABLES
    \* ConnectedParams, incoming side
    incoming_p_ids,        \* per packet type: (generation, next expected id)
    receive_queue,         \* per packet type: ids of the parked packets
    delivered,             \* per packet type: ids delivered upwards, in order
    first_id,              \* per packet type: the next id at the start
    win_op                 \* the last in_receive_window call and its result

wvars == << incoming_p_ids, receive_queue, delivered, first_id, win_op >>

VARIABLES
    \* InnerCM
    connections,           \* the map ConnectionId -> connection
    \* one entry per add_connection call
    handshake,             \* how far its future has come
    resolved_id,           \* the ConnectionId it resolved with
    con,                   \* its tsproto Connection: none, alive, destroyed
    resender,              \* the state of the resender of that Connection
    disconnect,            \* the future of remove_connection for it
    packets,               \* the commands sent on its command sink
    cm_op                  \* the last call on the manager and its result

mvars == << connections, handshake, resolved_id, con, resender, disconnect,
            packets, cm_op >>

VARIABLE
    \* the peer
    drops                  \* how many transmissions of clientinit it ignores

VARIABLES
    \* Connection: its pipelines and the facades on them
    con_rc,                \* a strong Rc to the Connection exists
    chains,                \* per pipeline slot: None, or Some(chain) as the
                           \* number of wrappers around the initial stream
    snapshot,              \* per facade: the chains when it was created
    fac_op                 \* the last operation on a facade and its result

pvars == << con_rc, chains, snapshot, fac_op >>

VARIABLE
    \* DefaultResender::update_srtt called on its own
    rtts                   \* the round trip times it was called with, in order

VARIABLES
    \* PacketDistributor and the buffers of the Connection it fills
    arrived,               \* packets the inner stream has yielded so far
    command_buffer_stream, \* its buffer: packets in the order they went in
    voice_buffer_stream,   \* its buffer
    forwarded,             \* the items the distributor's own stream yielded
    distributor_task,      \* TRUE when Some(task)
    dist_notified,         \* the task of the distributor is scheduled
    dist_done,             \* its stream has ended or failed
    dist_op                \* its last poll: the packet it got and the result

dvars == << arrived, command_buffer_stream, voice_buffer_stream, forwarded,
            distributor_task, dist_notified, dist_done, dist_op >>

vars == << rvars, wvars, mvars, drops, pvars, rtts, dvars >>

\* One Tick of the clock.
TickLen == config.connecting_interval
AgeCap == MaxAge * TickLen

\* ----------------------------------------------------------- SendRecord
\* A SendRecord is [sent, last, tries, p_type, p_id] and, as observation of
\* what happened to its packet:
\*   tx         the time since the udp sink last accepted it, -1 = never
\*   tx_state   the state the resender was in at that transmission
\*   txs        the transmissions the udp sink accepted since tries was
\*              last set to 0, saturating like tries
\*   wired      the transmissions the udp sink accepted since the record
\*              was queued, saturating like tries
\*   queued_in  the state the resender was in when the record was queued
Key(rec) == [p_type |-> rec.p_type, p_id |-> rec.p_id]
Keys(q) == {Key(q[i]) : i \in DOMAIN q}

Min(a, b) == IF a < b THEN a ELSE b

\* Ord for SendRecord: 1 = Greater, 0 = Equal, -1 = Less.
\* `last` is elapsed time, so the smaller chrono time is the larger value.
cmp(self, other) ==
    IF self.tries = 0
    THEN IF other.tries = 0
         THEN (IF self.p_id < other.p_id THEN 1
               ELSE IF self.p_id > other.p_id THEN -1 ELSE 0)
         ELSE 1
    ELSE IF other.tries = 0
    THEN -1
    ELSE IF self.last > other.last THEN 1
    ELSE IF self.last < other.last THEN -1
    ELSE (IF self.p_id < other.p_id THEN 1
          ELSE IF self.p_id > other.p_id THEN -1 ELSE 0)

RemoveAt(q, i) == [j \in 1..(Len(q) - 1) |-> IF j < i THEN q[j] ELSE q[j + 1]]

\* v.iter().position(|rec| rec.p_type == p_type && rec.p_id == p_id)
position(q, p_type, p_id) ==
    LET hits == {i \in DOMAIN q : q[i].p_type = p_type /\ q[i].p_id = p_id}
    IN  IF hits = {} THEN 0 ELSE CHOOSE i \in hits : \A j \in hits : i <= j

IsHeapState(st) == st \in {"Connecting", "Normal", "Disconnecting"}

\* A peek that returns any record of the heap.
HeapPeek_any(q) == DOMAIN q

\* The indices BinaryHeap::peek may return: the greatest records.
HeapPeek(q) == {i \in DOMAIN q : \A j \in DOMAIN q : cmp(q[i], q[j]) >= 0}


\* ------------------------------------------------- DefaultResender: helpers
\* update_srtt: the new (srtt, srtt_dev) after a measured round trip time.
update_srtt_dev_last(s, dev, rtt) ==
    LET new == (s * 7) \div 8 + rtt \div 8
        diff == IF rtt > new THEN rtt - new ELSE new - rtt
    IN  [srtt |-> new, srtt_dev |-> (dev * 3) \div 4 + diff \div 4]

update_srtt(s, dev, rtt) ==
    LET diff == IF rtt > s THEN rtt - s ELSE s - rtt
    IN  [srtt |-> (s * 7) \div 8 + rtt \div 8,
         srtt_dev |-> (dev * 3) \div 4 + diff \div 4]

\* The first part of ack_packet: the record taken out of the queue, if any.
\* Returns [found, rec, q].
ack_take_by_id(st, q, p_type, p_id) ==
    LET hits == {i \in DOMAIN q : q[i].p_id = p_id}
        i == IF hits = {} THEN 0 ELSE CHOOSE h \in hits : \A j \in hits : h <= j
    IN  IF i = 0 THEN [found |-> FALSE, rec |-> NoItem, q |-> q]
        ELSE [found |-> TRUE, rec |-> q[i], q |-> RemoveAt(q, i)]

ack_take(st, q, p_type, p_id) ==
    IF ~IsHeapState(st)
    THEN \* Stalling, Dead: position() and Vec::remove
         LET i == position(q, p_type, p_id)
         IN  IF i = 0 THEN [found |-> FALSE, rec |-> NoItem, q |-> q]
             ELSE [found |-> TRUE, rec |-> q[i], q |-> RemoveAt(q, i)]
    ELSE IF q = << >>
    THEN \* Do nothing if the heap is empty
         [found |-> FALSE, rec |-> NoItem, q |-> q]
    ELSE LET top == CHOOSE i \in HeapPeek(q) : TRUE
             is_first == q[top].p_type = p_type /\ q[top].p_id = p_id
         IN  IF is_first
             THEN \* to_send.pop()
                  [found |-> TRUE, rec |-> q[top], q |-> RemoveAt(q, top)]
             ELSE \* into_vec(), position(), remove(), back into a heap
                  LET i == position(q, p_type, p_id)
                  IN  IF i = 0 THEN [found |-> FALSE, rec |-> NoItem, q |-> q]
                      ELSE [found |-> TRUE, rec |-> q[i], q |-> RemoveAt(q, i)]

\* A drain(..) whose records are not collected.
reset_tries_drained(q) == << >>

\* for rec in to_send.iter_mut() { rec.tries = 0; }
reset_tries_none(q) == q

reset_tries(q) == [i \in DOMAIN q |-> [q[i] EXCEPT !.tries = 0, !.txs = 0]]

\* The test of start_send for a full queue.
queue_full_off_by_one(q) == Len(q) > config.max_send_queue_len

queue_full(q) == Len(q) >= config.max_send_queue_len

\* The tasks ack_packet notifies: resender_task.drain(..)
ack_wakes_none(tasks) == {}

ack_wakes(tasks) == tasks

\* Resender::send_voice_packets
send_voice_packets_stalling ==
    CASE state = "Connecting"    -> FALSE
      [] state = "Stalling"      -> TRUE
      [] state = "Dead"          -> FALSE
      [] state = "Disconnecting" -> FALSE
      [] state = "Normal"        -> TRUE

send_voice_packets ==
    CASE state = "Connecting"    -> FALSE
      [] state = "Stalling"      -> FALSE
      [] state = "Dead"          -> FALSE
      [] state = "Disconnecting" -> FALSE
      [] state = "Normal"        -> TRUE

is_empty == to_send = << >>

get_packet_interval(st) ==
    CASE st = "Connecting"    -> config.connecting_interval
      [] st = "Stalling"      -> config.stalling_interval
      [] st = "Disconnecting" -> config.disconnect_interval
      [] OTHER                -> -1   \* None

\* peek_mut_next_record: the indices of the record it may return.
peek_mut_next_record_any(st, q) ==
    IF q = << >> \/ st = "Dead" THEN {}
    ELSE IF st = "Stalling" THEN DOMAIN q
    ELSE HeapPeek(q)

peek_mut_next_record_dead(st, q) ==
    IF q = << >> THEN {}
    ELSE IF st \in {"Stalling", "Dead"} THEN {1}
    ELSE HeapPeek(q)

peek_mut_next_record(st, q) ==
    IF q = << >> \/ st = "Dead" THEN {}
    ELSE IF st = "Stalling" THEN {1}
    ELSE HeapPeek(q)

\* Whether a state keeps a start_time.
HasStartTime_always(st) == TRUE

HasStartTime(st) == st # "Normal"

\* The last operation: its name, the key it was called with, its result and
\* the state the resender was in when it was called.
Op(name, p_type, p_id, res) ==
    [name |-> name, p_type |-> p_type, p_id |-> p_id, res |-> res,
     from |-> state]

\* --------------------------------------------- DefaultResender: operations
\* A push that leaves the start time of every state alone.
start_time_pushed_kept(st, t) == t

\* "Update start time": the start_time of the state after v.push(rec).
start_time_pushed(st, t) ==
    IF st \in {"Connecting", "Disconnecting"} THEN 0 ELSE t

\* Sink::start_send, called by producer task p with an item.
start_send(p, item) ==
    LET rec == [sent |-> 0, last |-> 0, tries |-> 0,
                p_type |-> item.p_type, p_id |-> item.p_id,
                tx |-> -1, tx_state |-> "", txs |-> 0, wired |-> 0,
                queued_in |-> state]
    IN  IF queue_full(to_send)
        THEN \* NotReady: the item goes back, the task is parked
             /\ resender_task' = resender_task \cup {p}
             /\ pstate' = [pstate EXCEPT ![p] = "parked"]
             /\ pitem' = [pitem EXCEPT ![p] = item]
             /\ slot' = [slot EXCEPT ![p] = "none"]
             /\ op' = Op("start_send", "None", 0, "NotReady")
             /\ UNCHANGED << to_send, start_time, fut_notified >>
        ELSE /\ to_send' = Append(to_send, rec)
             /\ start_time' = start_time_pushed(state, start_time)
             /\ fut_notified' = (fut_notified \/ resender_future_task)
             /\ pstate' = [pstate EXCEPT ![p] = "idle"]
             /\ pitem' = [pitem EXCEPT ![p] = NoItem]
             /\ slot' = [q \in Producers |->
                            IF q = p
                            THEN (IF pstate[p] = "woken" /\ slot[p] = "freed"
                                  THEN "accepted" ELSE "none")
                            ELSE IF slot[q] = "freed" THEN "taken"
                            ELSE slot[q]]
             /\ op' = Op("start_send", "None", 0, "Ready")
             /\ UNCHANGED resender_task

\* Resender::ack_packet
ack_packet(p_type, p_id) ==
    LET took == ack_take(state, to_send, p_type, p_id)
        upd == IF took.found /\ took.rec.tries = 1
               THEN update_srtt(srtt, srtt_dev, took.rec.sent)
               ELSE [srtt |-> srtt, srtt_dev |-> srtt_dev]
        woken == ack_wakes(resender_task)
    IN  /\ IF state = "Stalling"
           THEN /\ state' = "Normal"
                /\ to_send' = reset_tries(took.q)
                /\ srtt' = config.normal_timeout \div 4
                /\ start_time' = 0
                /\ fut_notified' = (fut_notified \/ resender_future_task)
           ELSE /\ to_send' = took.q
                /\ srtt' = upd.srtt
                /\ UNCHANGED << state, start_time, fut_notified >>
        /\ srtt_dev' = upd.srtt_dev
        /\ resender_task' = resender_task \ woken
        /\ pstate' = [p \in Producers |->
                        IF p \in woken THEN "woken" ELSE pstate[p]]
        /\ slot' = [p \in Producers |->
                       IF took.found /\ p \in resender_task THEN "freed"
                       ELSE slot[p]]
        /\ op' = Op("ack_packet", p_type, p_id,
                    IF took.found THEN "removed" ELSE "none")
        /\ UNCHANGED pitem

\* Resender::handle_event
handle_event(event) ==
    /\ IF event \in {"Connecting", "Disconnecting"}
       THEN /\ state' = event
            /\ to_send' = reset_tries(to_send)
            /\ start_time' = 0
       ELSE \* Connected
            /\ state' = "Normal"
            /\ to_send' = to_send
            /\ start_time' = 0
    /\ fut_notified' = (fut_notified \/ resender_future_task)
    /\ op' = Op("handle_event", "None", 0, event)

\* udp_packet_received without the match on Dead: every state is restarted.
udp_packet_received_any ==
    /\ state' = "Stalling"
    /\ start_time' = 0
    /\ fut_notified' = (fut_notified \/ resender_future_task)
    /\ op' = Op("udp_packet_received", "None", 0, "")

\* Resender::udp_packet_received
udp_packet_received ==
    /\ IF state = "Dead"
       THEN /\ state' = "Stalling"
            /\ start_time' = 0
            /\ fut_notified' = (fut_notified \/ resender_future_task)
       ELSE UNCHANGED << state, start_time, fut_notified >>
    /\ op' = Op("udp_packet_received", "None", 0, "")


\* Drop for DefaultResender: the future is notified, the producer tasks in
\* resender_task are not.
resender_drop ==
    /\ con_alive' = FALSE
    /\ fut_notified' = (fut_notified \/ resender_future_task)

\* A Drop for Connection that notifies nobody.
connection_drop_silent ==
    /\ con_rc' = FALSE
    /\ dist_notified' = dist_notified

\* Drop for Connection: the task of the distributor is notified.
connection_drop ==
    /\ con_rc' = FALSE
    /\ dist_notified' = (dist_notified \/ distributor_task)

\* What a poll of the ResendFuture leaves alone in the Connection.
pipelines_kept == << chains, snapshot, fac_op, rtts, arrived,
                    command_buffer_stream, voice_buffer_stream, forwarded,
                    distributor_task, dist_done, dist_op >>

\* ------------------------------------------------------ ResendFuture::poll
\* The time after which the current state is over, -1 when it has none.
state_timeout_of(st) ==
    CASE st = "Connecting"    -> config.connecting_timeout
      [] st = "Stalling"      -> config.stalling_timeout
      [] st = "Dead"          -> config.dead_timeout
      [] st = "Disconnecting" -> config.disconnect_timeout
      [] OTHER                -> -1

\* "Check if we are over time in the current state": st was entered, or
\* its start_time was reset, the time t ago.
over_time_late(st, t) == HasStartTime(st) /\ t > state_timeout_of(st)

over_time(st, t) == HasStartTime(st) /\ t >= state_timeout_of(st)

\* The number of ticks after which a timer set to a duration has run out.
Ticks(dur) == (dur + TickLen - 1) \div TickLen

\* Retransmission timeout.
rto_of(st, s, dev) ==
    IF get_packet_interval(st) # -1 THEN get_packet_interval(st)
    ELSE s + dev * 4

\* The sequences to_send.sort_by(|a, b| a.p_id.cmp(&b.p_id)) can give, the
\* order of the heap's vector being unspecified.
sort_by_p_id_unsorted(q) ==
    { [i \in DOMAIN q |-> q[f[i]]] : f \in Permutations(DOMAIN q) }

sort_by_p_id(q) ==
    { s \in { [i \in DOMAIN q |-> q[f[i]]] : f \in Permutations(DOMAIN q) } :
        \A i, j \in DOMAIN s : i < j => s[i].p_id <= s[j].p_id }

\* The records are updated with `tries += 1`.
bump_tries(n) == Min(n + 1, MaxTries)

\* The udp sink has accepted the packet of rec in state st.
transmitted(rec, st) ==
    [rec EXCEPT !.tx = 0, !.tx_state = st, !.txs = bump_tries(@),
                !.wired = bump_tries(@)]

\* The `while let Some(packet)` loop.  L is the running state:
\*   q, srtt       the queue and srtt
\*   room          packets the udp sink still accepts before it is NotReady
\*   sent          keys handed to the sink so far
\*   timeout       the new deadline of self.timeout, -1 = not reset
\*   is_sending, blocked, switch_to_stalling
\* The result is the set of states the loop can end in.
RECURSIVE send_loop(_, _, _, _)
send_loop(st, rto, flushed, L) ==
    LET cand == peek_mut_next_record(st, L.q) IN
    IF cand = {} THEN {L}
    ELSE UNION {
        LET rec == L.q[i] IN
        IF rec.tries # 0 /\ rec.last < rto /\ rec.last < AgeCap
        THEN \* Schedule next send
             {[L EXCEPT !.timeout = Ticks(rto - rec.last)]}
        ELSE IF L.room = 0
        THEN \* The sink should notify us if it is ready
             {[L EXCEPT !.blocked = TRUE]}
        ELSE LET doubled == IF rec.tries # 0 /\ L.srtt < config.normal_timeout
                            THEN L.srtt * 2 ELSE L.srtt
                 L1 == [L EXCEPT !.srtt = doubled,
                                 !.room = @ - 1,
                                 !.sent = Append(@, Key(rec)),
                                 !.is_sending = ~flushed]
                 on_wire == transmitted(rec, st)
             IN  IF st = "Normal" /\ rto > config.normal_timeout
                 THEN {[L1 EXCEPT !.q[i] = on_wire,
                                  !.switch_to_stalling = TRUE]}
                 ELSE send_loop(st, rto, flushed,
                        [L1 EXCEPT !.q[i] = [on_wire EXCEPT
                                               !.last = 0,
                                               !.tries = bump_tries(@)]])
        : i \in cand }

SeqToSet(s) == {s[i] : i \in DOMAIN s}

\* poll, from the state check on (the connection exists, the sink is flushed).
poll_send(room, flushed) ==
    LET over == over_time(state, start_time)
    IN
    IF state = "Stalling" /\ over
    THEN \* StateChange::NewState(Dead)
         /\ state' = "Dead"
         /\ start_time' = 0
         /\ fut_notified' = TRUE
         /\ sent_now' = << >>
         /\ sink_wait' = FALSE
         /\ is_sending' = FALSE
         /\ op' = Op("poll", "None", 0, "NewState")
         /\ UNCHANGED << to_send, srtt, timeout, state_timeout, con_alive,
                         wire, con_rc, dist_notified >>
    ELSE IF over
    THEN \* StateChange::EndConnection: Data::remove_connection releases the
         \* Connection; dropping its resender notifies the future.
         /\ con_alive' = FALSE
         /\ fut_notified' = TRUE
         /\ connection_drop
         /\ sent_now' = << >>
         /\ sink_wait' = FALSE
         /\ is_sending' = FALSE
         /\ op' = Op("poll", "None", 0, "EndConnection")
         /\ to_send' = << >>
         /\ UNCHANGED << state, start_time, srtt, timeout, state_timeout,
                         wire >>
    ELSE \E L \in send_loop(state, rto_of(state, srtt, srtt_dev), flushed,
                    [q |-> to_send, srtt |-> srtt, room |-> room,
                     sent |-> << >>, timeout |-> -1, is_sending |-> FALSE,
                     blocked |-> FALSE, switch_to_stalling |-> FALSE]) :
         /\ state_timeout' = IF HasStartTime(state)
                             THEN Ticks(state_timeout_of(state) - start_time)
                             ELSE state_timeout
         /\ IF L.switch_to_stalling
            THEN /\ state' = "Stalling"
                 /\ to_send' \in sort_by_p_id(L.q)
                 /\ start_time' = 0
                 /\ fut_notified' = TRUE
            ELSE /\ to_send' = L.q
                 /\ fut_notified' = FALSE
                 /\ UNCHANGED << state, start_time >>
         /\ srtt' = L.srtt
         /\ timeout' = IF L.timeout # -1 THEN L.timeout ELSE timeout
         /\ is_sending' = L.is_sending
         /\ sink_wait' = (L.blocked \/ L.is_sending)
         /\ wire' = wire \cup SeqToSet(L.sent)
         /\ sent_now' = L.sent
         /\ op' = Op("poll", "None", 0,
                     IF L.switch_to_stalling THEN "Stalling"
                     ELSE IF L.blocked THEN "blocked"
                     ELSE IF L.timeout # -1 THEN "wait" ELSE "idle")
         /\ UNCHANGED << con_alive, con_rc, dist_notified >>

\* Future::poll of ResendFuture.  room and flushed are what the udp sink does
\* in this poll; complete is the answer of the first poll_complete.
poll(room, flushed, complete) ==
    /\ fut_notified /\ ~fut_done
    /\ UNCHANGED << config, srtt_dev, resender_task, pstate, pitem, next_id,
                    events, slot, wvars, mvars, drops, pipelines_kept >>
    /\ IF ~con_alive
       THEN \* Quit if the connection does not exist anymore
            /\ fut_done' = TRUE
            /\ fut_notified' = FALSE
            /\ sent_now' = << >>
            /\ op' = Op("poll", "None", 0, "Ready")
            /\ UNCHANGED << state, to_send, start_time, srtt,
                            resender_future_task, timeout, state_timeout,
                            is_sending, sink_wait, con_alive, wire,
                            con_rc, dist_notified >>
       ELSE /\ resender_future_task' = TRUE
            /\ UNCHANGED fut_done
            /\ IF is_sending /\ ~complete
               THEN /\ fut_notified' = FALSE
                    /\ sink_wait' = TRUE
                    /\ sent_now' = << >>
                    /\ op' = Op("poll", "None", 0, "sending")
                    /\ UNCHANGED << state, to_send, start_time, srtt, timeout,
                                    state_timeout, is_sending, con_alive, wire,
                                    con_rc, dist_notified >>
               ELSE poll_send(room, flushed)


\* ------------------------------------------------------------ the actions
\* The event loop polls the future.  rooms: how many packets the udp sink may
\* take in this poll before it is NotReady; flushes: what its poll_complete
\* may answer.
Poll(rooms, flushes) ==
    \E room \in rooms, flushed \in flushes, complete \in flushes :
        poll(room, flushed, complete)

\* A udp sink that takes every packet at once.
ReadyRooms == {config.max_send_queue_len}
ReadyFlushes == {TRUE}

\* A udp sink that may refuse a packet or stay unflushed.
AnyRooms == 0..config.max_send_queue_len
AnyFlushes == BOOLEAN

\* The number of packets handed to the resender so far.
Queued == next_id["Command"] + next_id["CommandLow"]

\* A producer task sends the item it holds, or a new item with the next
\* packet id of one of the packet types.
ProducerSend(p, types, max) ==
    /\ con_alive
    /\ \/ /\ pstate[p] = "woken"
          /\ start_send(p, pitem[p])
          /\ UNCHANGED next_id
       \/ /\ pstate[p] = "idle"
          /\ Queued < max
          /\ \E t \in types :
                /\ next_id' = [next_id EXCEPT ![t] = @ + 1]
                /\ start_send(p, [p_type |-> t, p_id |-> next_id[t]])
    /\ sent_now' = << >>
    /\ UNCHANGED << config, state, srtt, srtt_dev, resender_future_task,
                    fut_done, timeout, state_timeout, is_sending, sink_wait,
                    con_alive, events, wire,
                    wvars, mvars, drops, pvars, rtts, dvars >>

\* The peer acknowledges a packet that was on the wire.
AckPacket ==
    /\ con_alive
    /\ \E k \in wire : ack_packet(k.p_type, k.p_id)
    /\ sent_now' = << >>
    /\ UNCHANGED << config, resender_future_task, fut_done, timeout,
                    state_timeout, is_sending, sink_wait, con_alive, next_id,
                    events, wire,
                    wvars, mvars, drops, pvars, rtts, dvars >>

\* A udp packet of the peer arrives.
UdpPacketReceived ==
    /\ con_alive
    /\ udp_packet_received
    /\ sent_now' = << >>
    /\ UNCHANGED << config, to_send, srtt, srtt_dev, resender_task,
                    resender_future_task, fut_done, timeout, state_timeout,
                    is_sending, sink_wait, con_alive, pstate, pitem, next_id,
                    events, wire, slot,
                    wvars, mvars, drops, pvars, rtts, dvars >>

ResenderEvents == {"Connecting", "Connected", "Disconnecting"}

\* The connection layer reports a ResenderEvent.
HandleEvent(evs) ==
    /\ con_alive
    /\ events < MaxEvents
    /\ \E ev \in evs : handle_event(ev)
    /\ events' = events + 1
    /\ sent_now' = << >>
    /\ UNCHANGED << config, srtt, srtt_dev, resender_task,
                    resender_future_task, fut_done, timeout, state_timeout,
                    is_sending, sink_wait, con_alive, pstate, pitem, next_id,
                    wire, slot,
                    wvars, mvars, drops, pvars, rtts, dvars >>

\* The udp sink notifies the future: it is ready again.
SinkReady ==
    /\ sink_wait /\ ~fut_done
    /\ sink_wait' = FALSE
    /\ fut_notified' = TRUE
    /\ sent_now' = << >>
    /\ op' = Op("sink_ready", "None", 0, "")
    /\ UNCHANGED << config, state, to_send, start_time, srtt, srtt_dev,
                    resender_task, resender_future_task, fut_done, timeout,
                    state_timeout, is_sending, con_alive, pstate, pitem,
                    next_id, events, wire, slot,
                    wvars, mvars, drops, pvars, rtts, dvars >>

Older(t) == Min(t + TickLen, AgeCap)

TimerAfterTick(t) == IF t <= 1 THEN -1 ELSE t - 1

TimerFires(t) == t # -1 /\ t <= 1

\* Time passes.  Tasks that were notified run before time passes, and a
\* timer that runs out notifies the future.
Tick ==
    /\ con_alive
    /\ ~fut_notified
    /\ \A p \in Producers : pstate[p] # "woken"
    /\ to_send' = [i \in DOMAIN to_send |->
                     [to_send[i] EXCEPT !.sent = Older(@), !.last = Older(@),
                                        !.tx = IF @ = -1 THEN -1
                                               ELSE Older(@)]]
    /\ start_time' = IF HasStartTime(state) THEN Older(start_time) ELSE start_time
    /\ timeout' = TimerAfterTick(timeout)
    /\ state_timeout' = TimerAfterTick(state_timeout)
    /\ fut_notified' = (~fut_done /\ (TimerFires(timeout) \/ TimerFires(state_timeout)))
    /\ sent_now' = << >>
    /\ op' = Op("tick", "None", 0, "")
    /\ UNCHANGED << config, state, srtt, srtt_dev, resender_task,
                    resender_future_task, fut_done, is_sending, sink_wait,
                    con_alive, pstate, pitem, next_id, events, wire, slot,
                    wvars, mvars, drops, pvars, rtts, dvars >>

\* update_srtt is called with a measured round trip time.
UpdateSrtt(rtt) ==
    /\ con_alive
    /\ srtt' = update_srtt(srtt, srtt_dev, rtt).srtt
    /\ srtt_dev' = update_srtt(srtt, srtt_dev, rtt).srtt_dev
    /\ rtts' = Append(rtts, rtt)
    /\ sent_now' = << >>
    /\ op' = Op("update_srtt", "None", 0, "")
    /\ UNCHANGED << config, state, to_send, start_time, resender_task,
                    resender_future_task, fut_notified, fut_done, timeout,
                    state_timeout, is_sending, sink_wait, con_alive, pstate,
                    pitem, next_id, events, wire, slot,
                    wvars, mvars, drops, pvars, dvars >>

\* DefaultResender::new(cfg) and a spawned ResendFuture.
ResenderInit(cfg) ==
    /\ config = cfg
    /\ state = "Connecting"
    /\ to_send = << >>
    /\ start_time = 0
    /\ srtt = cfg.srtt
    /\ srtt_dev = cfg.srtt_dev
    /\ resender_task = {}
    /\ resender_future_task = FALSE
    /\ fut_notified = TRUE
    /\ fut_done = FALSE
    /\ timeout = -1
    /\ state_timeout = -1
    /\ is_sending = FALSE
    /\ sink_wait = FALSE
    /\ con_alive = TRUE
    /\ pstate = [p \in Producers |-> "idle"]
    /\ pitem = [p \in Producers |-> NoItem]
    /\ next_id = [t \in PacketTypes |-> 0]
    /\ events = 0
    /\ wire = {}
    /\ sent_now = << >>
    /\ slot = [p \in Producers |-> "none"]
    /\ op = Op("new", "None", 0, "")
    /\ rtts = << >>

\* ------------------------------------------- ConnectedParams: the window
\* u16::MAX
U16Max == 65535

\* Ids are u16: they wrap at 2^16.
IdSpace == U16Max + 1

\* Packets delivered or parked in one run.
MaxReceived == 4

\* The packet types that have a receive queue.
RecvTypes == {"Command", "CommandLow"}

\* in_receive_window: (in the window, cur_next, limit).
in_receive_window_no_limit(ids, p_type, p_id) ==
    LET cur_next == ids[p_type].id
        limit == (cur_next + U16Max \div 2) % U16Max
    IN  [ok |-> p_id >= cur_next, cur_next |-> cur_next, limit |-> limit]

in_receive_window(ids, p_type, p_id) ==
    LET cur_next == ids[p_type].id
        limit == (cur_next + U16Max \div 2) % U16Max
    IN  [ok |-> \/ (cur_next < limit /\ p_id >= cur_next /\ p_id < limit)
                \/ (cur_next > limit /\ (p_id >= cur_next \/ p_id < limit)),
         cur_next |-> cur_next,
         limit |-> limit]

\* The next (generation, id) after one delivery.
advance(pid) ==
    IF pid.id = U16Max THEN [gen |-> pid.gen + 1, id |-> 0]
    ELSE [gen |-> pid.gen, id |-> pid.id + 1]

\* Deliver the packets parked at the next id, one after the other.
\* R is [next, queue, out].
RECURSIVE drain(_)
drain(R) ==
    IF R.next.id \in R.queue
    THEN drain([next |-> advance(R.next),
                queue |-> R.queue \ {R.next.id},
                out |-> Append(R.out, R.next.id)])
    ELSE R

\* A reliable packet with id p_id of type p_type comes in.
receive(p_type, p_id) ==
    LET w == in_receive_window(incoming_p_ids, p_type, p_id)
        R == drain([next |-> advance(incoming_p_ids[p_type]),
                    queue |-> receive_queue[p_type],
                    out |-> Append(delivered[p_type], p_id)])
    IN  /\ win_op' = [p_type |-> p_type, p_id |-> p_id,
                      cur_next |-> w.cur_next, ok |-> w.ok]
        /\ IF ~w.ok
           THEN \* outside the window: dropped
                UNCHANGED << incoming_p_ids, receive_queue, delivered >>
           ELSE IF p_id = w.cur_next
           THEN \* delivered, and the parked packets that follow it
                /\ incoming_p_ids' = [incoming_p_ids EXCEPT ![p_type] = R.next]
                /\ receive_queue' = [receive_queue EXCEPT ![p_type] = R.queue]
                /\ delivered' = [delivered EXCEPT ![p_type] = R.out]
           ELSE \* parked
                /\ receive_queue' = [receive_queue EXCEPT ![p_type] = @ \cup {p_id}]
                /\ UNCHANGED << incoming_p_ids, delivered >>

\* The distances from the next id at which packets come in.
Offsets == {0, 1, 2, U16Max \div 2 - 1, U16Max \div 2, U16Max \div 2 + 1, U16Max}

\* The next ids a run starts from.
StartIds == {0, 1, U16Max \div 2, U16Max \div 2 + 1, U16Max \div 2 + 2,
             U16Max - 1, U16Max}

Received ==
    Len(delivered["Command"]) + Cardinality(receive_queue["Command"])
    + Len(delivered["CommandLow"]) + Cardinality(receive_queue["CommandLow"])

Receive ==
    /\ \E t \in RecvTypes, d \in Offsets :
          /\ Received < MaxReceived
          /\ receive(t, (incoming_p_ids[t].id + d) % IdSpace)
    /\ UNCHANGED << first_id, rvars, mvars, drops, pvars, rtts, dvars >>

WindowInit(n) ==
    /\ incoming_p_ids = [t \in RecvTypes |-> [gen |-> 0, id |-> n]]
    /\ receive_queue = [t \in RecvTypes |-> {}]
    /\ delivered = [t \in RecvTypes |-> << >>]
    /\ first_id = [t \in RecvTypes |-> n]
    /\ win_op = [p_type |-> "None", p_id |-> 0, cur_next |-> 0, ok |-> FALSE]

\* ------------------------------------------------- the ConnectionManager
\* add_connection calls in one run.
MaxConns == 3

\* The add_connection calls: each creates its own client and Connection.
Conns == 1..MaxConns

\* The ConnectionIds that calls on the manager are made with.
ConnectionIds == 0..MaxConns

\* An id chosen before the handshake, when the map was still empty.
find_connection_id_early(conns) == 0

\* InnerCM::find_connection_id: the first free connection id.
find_connection_id_len(conns) == Cardinality(DOMAIN conns)

find_connection_id(conns) ==
    CHOOSE i \in 0..Cardinality(DOMAIN conns) :
        /\ i \notin DOMAIN conns
        /\ \A j \in 0..(i - 1) : j \in DOMAIN conns

\* inner.connections.insert(id, con)
insert_nothing(conns, id, c) == conns

insert(conns, id, c) ==
    [k \in DOMAIN conns \cup {id} |-> IF k = id THEN c ELSE conns[k]]

\* inner.connections.remove(&id): the connection found, if any, and the map
\* without the key.
connections_remove_nth(conns, id) ==
    LET nth == {k \in DOMAIN conns :
                  Cardinality({j \in DOMAIN conns : j < k}) = id}
    IN  IF nth = {}
        THEN [found |-> FALSE, c |-> 0, conns |-> conns]
        ELSE LET k == CHOOSE k \in nth : TRUE
             IN  [found |-> TRUE, c |-> conns[k],
                  conns |-> [j \in DOMAIN conns \ {k} |-> conns[j]]]

connections_remove(conns, id) ==
    IF id \in DOMAIN conns
    THEN [found |-> TRUE, c |-> conns[id],
          conns |-> [k \in DOMAIN conns \ {id} |-> conns[k]]]
    ELSE [found |-> FALSE, c |-> 0, conns |-> conns]

contains_key(conns, id) == id \in DOMAIN conns

\* ConnectionManager::get_connection
get_connection(id) ==
    IF contains_key(connections, id) THEN "Some" ELSE "None"

\* The last call on the manager: its name, the id it was called with or
\* resolved with (for a step of a resender: its connection), its result, and
\* the keys of the map before it.
CmOp(name, id, res) ==
    [name |-> name, id |-> id, res |-> res,
     keys |-> IF name \in {"add_connection", "remove_connection"}
              THEN DOMAIN connections ELSE {},
     n |-> ""]

\* A command handed to the packet sink of a connection, and the state its
\* resender is in when it is queued.
Command(name, st) == [name |-> name, state |-> st]

\* add_connection is called: the transport connect starts.
AddConnection(c) ==
    /\ handshake[c] = "idle"
    /\ \A b \in Conns : b < c => handshake[b] # "idle"
    /\ handshake' = [handshake EXCEPT ![c] = "connect"]
    /\ cm_op' = CmOp("add_connection", 0, "pending")
    /\ UNCHANGED << connections, resolved_id, con, resender, disconnect,
                    packets, rvars, wvars, drops, pvars, rtts, dvars >>

\* connect_fut resolves: the Connection exists and clientinit is sent.
ConnectDone(c) ==
    /\ handshake[c] = "connect"
    /\ handshake' = [handshake EXCEPT ![c] = "clientinit"]
    /\ con' = [con EXCEPT ![c] = "alive"]
    /\ resender' = [resender EXCEPT ![c] = "Connecting"]
    /\ packets' = [packets EXCEPT
                     ![c] = Append(@, Command("clientinit", "Connecting"))]
    /\ cm_op' = CmOp("connect_done", 0, "pending")
    /\ UNCHANGED << connections, resolved_id, disconnect, rvars, wvars,
                    drops, pvars, rtts, dvars >>

\* connect_fut fails.
ConnectFailed(c) ==
    /\ handshake[c] = "connect"
    /\ handshake' = [handshake EXCEPT ![c] = "failed"]
    /\ cm_op' = CmOp("add_connection", 0, "Err")
    /\ UNCHANGED << connections, resolved_id, con, resender, disconnect,
                    packets, rvars, wvars, drops, pvars, rtts, dvars >>

\* wait_until_connected resolves.
Connected(c) ==
    /\ handshake[c] = "clientinit"
    /\ con[c] = "alive"
    /\ resender[c] = "Connecting"
    /\ handshake' = [handshake EXCEPT ![c] = "initserver"]
    /\ resender' = [resender EXCEPT ![c] = "Normal"]
    /\ cm_op' = CmOp("connected", 0, "pending")
    /\ UNCHANGED << connections, resolved_id, con, disconnect, packets,
                    rvars, wvars, drops, pvars, rtts, dvars >>

\* The first item of the command stream arrives ("None": the stream ended).
FirstNotification_any(c, n) ==
    /\ handshake[c] = "initserver"
    /\ con[c] = "alive" \/ n = "None"
    /\ LET id == find_connection_id(connections)
       IN  /\ connections' = insert(connections, id, c)
           /\ resolved_id' = [resolved_id EXCEPT ![c] = id]
           /\ handshake' = [handshake EXCEPT ![c] = "done"]
           /\ cm_op' = [CmOp("add_connection", id, "Ok") EXCEPT !.n = n]
    /\ UNCHANGED << con, resender, disconnect, packets, rvars, wvars, drops, pvars, rtts, dvars >>

FirstNotification(c, n) ==
    /\ handshake[c] = "initserver"
    /\ con[c] = "alive" \/ n = "None"
    /\ IF n = "InitServer"
       THEN LET id == find_connection_id(connections)
            IN  /\ connections' = insert(connections, id, c)
                /\ resolved_id' = [resolved_id EXCEPT ![c] = id]
                /\ handshake' = [handshake EXCEPT ![c] = "done"]
                /\ cm_op' = [CmOp("add_connection", id, "Ok") EXCEPT !.n = n]
       ELSE /\ handshake' = [handshake EXCEPT ![c] = "failed"]
            /\ cm_op' = [CmOp("add_connection", 0, "Got no initserver")
                            EXCEPT !.n = n]
            /\ UNCHANGED << connections, resolved_id >>
    /\ UNCHANGED << con, resender, disconnect, packets, rvars, wvars, drops, pvars, rtts, dvars >>

\* ConnectionManager::remove_connection
remove_connection_send_first(id) ==
    LET took == connections_remove(connections, id) IN
    IF ~took.found
    THEN /\ cm_op' = CmOp("remove_connection", id, "Ok")
         /\ UNCHANGED << connections, resender, disconnect, packets >>
    ELSE /\ connections' = took.conns
         /\ IF con[took.c] # "alive"
            THEN /\ cm_op' = CmOp("remove_connection", id, "Ok")
                 /\ UNCHANGED << resender, disconnect, packets >>
            ELSE /\ packets' = [packets EXCEPT ![took.c] =
                       Append(@, Command("clientdisconnect", resender[took.c]))]
                 /\ resender' = [resender EXCEPT ![took.c] = "Disconnecting"]
                 /\ disconnect' = [disconnect EXCEPT ![took.c] = "waiting"]
                 /\ cm_op' = CmOp("remove_connection", id, "pending")

remove_connection(id) ==
    LET took == connections_remove(connections, id) IN
    IF ~took.found
    THEN /\ cm_op' = CmOp("remove_connection", id, "Ok")
         /\ UNCHANGED << connections, resender, disconnect, packets >>
    ELSE /\ connections' = took.conns
         /\ IF con[took.c] # "alive"
            THEN \* Already disconnected
                 /\ cm_op' = CmOp("remove_connection", id, "Ok")
                 /\ UNCHANGED << resender, disconnect, packets >>
            ELSE \* handle_event(Disconnecting), then sink.send(packet)
                 /\ resender' = [resender EXCEPT ![took.c] = "Disconnecting"]
                 /\ packets' = [packets EXCEPT ![took.c] =
                       Append(@, Command("clientdisconnect", resender'[took.c]))]
                 /\ disconnect' = [disconnect EXCEPT ![took.c] = "waiting"]
                 /\ cm_op' = CmOp("remove_connection", id, "pending")

RemoveConnection ==
    /\ \E id \in ConnectionIds : remove_connection(id)
    /\ UNCHANGED << handshake, resolved_id, con, rvars, wvars, drops, pvars, rtts, dvars >>

\* The Connection is released: Data::remove_connection.
release(c) ==
    /\ con' = [con EXCEPT ![c] = "destroyed"]
    /\ disconnect' = [disconnect EXCEPT ![c] =
                        IF @ = "waiting" THEN "done" ELSE @]

\* The peer acknowledges clientdisconnect: the Connection is Disconnected.
DisconnectAcked(c) ==
    /\ con[c] = "alive"
    /\ disconnect[c] = "waiting"
    /\ resender[c] = "Disconnecting"
    /\ release(c)
    /\ cm_op' = CmOp("disconnected", 0, "acked")
    /\ UNCHANGED << connections, handshake, resolved_id, resender, packets,
                    rvars, wvars, drops, pvars, rtts, dvars >>

\* The resender of a Connection changes state without ending the connection:
\* Normal -> Stalling -> Dead in ResendFuture::poll, back on a sign of life.
ResenderChange(c) ==
    /\ con[c] = "alive"
    /\ \E st \in {"Stalling", "Dead", "Normal"} :
          /\ \/ resender[c] = "Normal" /\ st = "Stalling"
             \/ resender[c] = "Stalling" /\ st \in {"Dead", "Normal"}
             \/ resender[c] = "Dead" /\ st = "Stalling"
          /\ resender' = [resender EXCEPT ![c] = st]
    /\ cm_op' = CmOp("resender", c, "NewState")
    /\ UNCHANGED << connections, handshake, resolved_id, con, disconnect,
                    packets, rvars, wvars, drops, pvars, rtts, dvars >>

\* ResendFuture::poll ends the connection: StateChange::EndConnection.
ResenderTimeout(c) ==
    /\ con[c] = "alive"
    /\ resender[c] \in {"Connecting", "Dead", "Disconnecting"}
    /\ release(c)
    /\ cm_op' = CmOp("resender", c, "EndConnection")
    /\ UNCHANGED << connections, handshake, resolved_id, resender, packets,
                    rvars, wvars, drops, pvars, rtts, dvars >>

\* ConnectionManager::new
ManagerInit ==
    /\ connections = << >>
    /\ handshake = [c \in Conns |-> "idle"]
    /\ resolved_id = [c \in Conns |-> 0]
    /\ con = [c \in Conns |-> "none"]
    /\ resender = [c \in Conns |-> "Connecting"]
    /\ disconnect = [c \in Conns |-> "none"]
    /\ packets = [c \in Conns |-> << >>]
    /\ cm_op = [name |-> "new", id |-> 0, res |-> "", keys |-> {}, n |-> ""]

\* --------------------------------------------- Connection: the pipelines
\* Wrappers applied to one pipeline slot in one run.
MaxWrappers == 1

\* The four pipeline slots of a Connection.
Slots == {"udp_packet_stream", "udp_packet_sink", "packet_stream",
          "packet_sink"}

\* The facades that are a Stream and a Sink on the current chains.
Facades == {"UdpPackets", "Packets"}

\* The streams that read a buffer of the Connection.
BufferStreams == {"ConnectionUdpPacketStream", "ConnectionCommandPacketStream",
                  "ConnectionVoicePacketStream"}

StreamSlot(f) ==
    IF f = "UdpPackets" THEN "udp_packet_stream" ELSE "packet_stream"

SinkSlot(f) == IF f = "UdpPackets" THEN "udp_packet_sink" ELSE "packet_sink"

\* Option<chain>: a chain is the initial stream or sink and the number of
\* wrappers around it.
None == [some |-> FALSE, wrappers |-> 0]

Some(n) == [some |-> TRUE, wrappers |-> n]

\* The chains in the two slots of a facade.
ChainsOf(f, cs) == [pslot \in {StreamSlot(f), SinkSlot(f)} |-> cs[pslot]]

\* What the chain of a slot can answer.
StreamResults == {"Ready(Some)", "Ready(None)", "NotReady", "Err"}
SinkResults == {"Ready", "NotReady", "Err"}
SinkOps == {"start_send", "poll_complete", "close"}

\* The last operation on a facade: the facade, the operation, whether the
\* weak reference could be upgraded, the chain that was used, the result.
FacOp(f, name, alive, used, res) ==
    [f |-> f, name |-> name, alive |-> alive, used |-> used, res |-> res]

\* The result of a poll: end of stream once the Connection is gone, else
\* what the stream behind the facade answers.
poll_result_pending(f, alive, inner) == IF alive THEN inner ELSE "NotReady"

poll_result(f, alive, inner) == IF alive THEN inner ELSE "Ready(None)"

\* The chain a facade works on: the one in the slot of the Connection now;
\* made is what the facade saw when it was created.
current_chain_snapshot(made, cs, pslot) == made[pslot]

current_chain(made, cs, pslot) == cs[pslot]

\* slot.take()
take(cs, pslot) == [cs EXCEPT ![pslot] = None]

\* connection.slot = Some(chain)
put_back(cs, pslot, chain) == [cs EXCEPT ![pslot] = chain]

\* Stream::poll of UdpPackets and of Packets.
facade_poll(f, inner) ==
    LET pslot == StreamSlot(f)
        chain == current_chain(snapshot[f].at, chains, pslot)
    IN  IF ~con_rc
        THEN /\ fac_op' = FacOp(f, "poll", FALSE, None,
                                poll_result(f, FALSE, inner))
             /\ UNCHANGED chains
        ELSE IF chains[pslot] = None
        THEN \* take().unwrap(), take().expect(..)
             /\ fac_op' = FacOp(f, "poll", TRUE, None, "panic")
             /\ UNCHANGED chains
        ELSE /\ chains' = put_back(take(chains, pslot), pslot, chain)
             /\ fac_op' = FacOp(f, "poll", TRUE, chain,
                                poll_result(f, TRUE, inner))

\* Sink::start_send, poll_complete and close of UdpPackets and of Packets.
facade_sink(f, name, inner) ==
    LET pslot == SinkSlot(f)
        chain == current_chain(snapshot[f].at, chains, pslot)
    IN  IF ~con_rc \/ chains[pslot] = None
        THEN \* upgrade().unwrap(), take().unwrap()
             /\ fac_op' = FacOp(f, name, con_rc, None, "panic")
             /\ UNCHANGED chains
        ELSE /\ chains' = put_back(take(chains, pslot), pslot, chain)
             /\ fac_op' = FacOp(f, name, TRUE, chain, inner)

\* Stream::poll of the raw udp, the command and the voice stream.
buffer_poll(b, inner) ==
    /\ fac_op' = FacOp(b, "poll", con_rc, None, poll_result(b, con_rc, inner))
    /\ UNCHANGED chains

\* Connection::get_udp_packets, Connection::get_packets
GetFacade(f) ==
    /\ con_rc
    /\ ~snapshot[f].made
    /\ snapshot' = [snapshot EXCEPT
                       ![f] = [made |-> TRUE, at |-> ChainsOf(f, chains)]]
    /\ fac_op' = FacOp(f, "get", TRUE, None, "")
    /\ UNCHANGED << con_rc, chains, rvars, wvars, mvars, drops, rtts, dvars >>

\* Connection::apply_*_wrapper on an installed slot.
ApplyWrapper(pslot) ==
    /\ con_rc
    /\ chains[pslot] # None
    /\ chains[pslot].wrappers < MaxWrappers
    /\ chains' = [chains EXCEPT ![pslot] = Some(@.wrappers + 1)]
    /\ fac_op' = FacOp(pslot, "apply_wrapper", TRUE, chains'[pslot], "")
    /\ UNCHANGED << con_rc, snapshot, rvars, wvars, mvars, drops, rtts, dvars >>

\* The pipeline setup installs the packet stream and sink of the Connection.
InstallPackets ==
    /\ con_rc
    /\ chains["packet_stream"] = None
    /\ chains' = [chains EXCEPT !["packet_stream"] = Some(0),
                                !["packet_sink"] = Some(0)]
    /\ fac_op' = FacOp("packet_stream", "install", TRUE, Some(0), "")
    /\ UNCHANGED << con_rc, snapshot, rvars, wvars, mvars, drops, rtts, dvars >>

FacadePoll(f) ==
    /\ snapshot[f].made
    /\ \E inner \in StreamResults : facade_poll(f, inner)
    /\ UNCHANGED << con_rc, snapshot, rvars, wvars, mvars, drops, rtts, dvars >>

FacadeSink(f) ==
    /\ snapshot[f].made
    /\ \E name \in SinkOps, inner \in SinkResults : facade_sink(f, name, inner)
    /\ UNCHANGED << con_rc, snapshot, rvars, wvars, mvars, drops, rtts, dvars >>

BufferPoll(b) ==
    /\ \E inner \in {"Ready(Some)", "NotReady"} : buffer_poll(b, inner)
    /\ UNCHANGED << con_rc, snapshot, rvars, wvars, mvars, drops, rtts, dvars >>

\* The last strong reference to the Connection is dropped: Drop for
\* Connection runs, then its fields are dropped, the resender among them.
DropConnection ==
    /\ con_rc
    /\ connection_drop
    /\ resender_drop
    /\ fac_op' = FacOp("Connection", "drop", FALSE, None, "")
    /\ UNCHANGED << config, state, to_send, start_time, srtt, srtt_dev,
                    resender_task, resender_future_task, fut_done, timeout,
                    state_timeout, is_sending, sink_wait, pstate, pitem,
                    next_id, events, wire, sent_now, slot, op,
                    chains, snapshot, wvars, mvars, drops, rtts, arrived,
                    command_buffer_stream, voice_buffer_stream, forwarded,
                    distributor_task, dist_done, dist_op >>

\* ------------------------------------------------ the PacketDistributor
\* Packets the inner stream yields in one run.
MaxArrivals == 4

\* ::STREAM_BUFFER_MAX_SIZE
STREAM_BUFFER_MAX_SIZE == 2

\* The packet types of arriving packets; Ping stands for every type that
\* has no buffer.
InboundTypes == {"Command", "CommandLow", "Voice", "VoiceWhisper", "Ping"}

\* What inner.poll() can answer.
InnerResults == {"Ready(Some)", "Ready(None)", "NotReady", "Err"}

\* A packet: its place in the order of arrival and its header type.
Packet(n, p_type) == [n |-> n, p_type |-> p_type]

NoPacket == Packet(0, "None")

\* The last poll of the distributor: what inner.poll() answered, the packet
\* it yielded, where the packet went and what the poll returned.
DistOp(inner, packet, to, res) ==
    [inner |-> inner, packet |-> packet, to |-> to, res |-> res]

\* A match on the packet type that sends every packet to the command buffer.
buffer_stream_of_always_command(p_type) == "command_buffer_stream"

\* match packet.header.get_type()
buffer_stream_of(p_type) ==
    IF p_type \in {"Command", "CommandLow"} THEN "command_buffer_stream"
    ELSE IF p_type \in {"Voice", "VoiceWhisper"} THEN "voice_buffer_stream"
    ELSE "None"

\* A length check that lets one packet more in.
buffer_full_late(buffer) == Len(buffer) > STREAM_BUFFER_MAX_SIZE

\* buffer_stream.buffer.len() >= ::STREAM_BUFFER_MAX_SIZE
buffer_full(buffer) == Len(buffer) >= STREAM_BUFFER_MAX_SIZE

\* buffer_stream.buffer.push_back(packet), unless the buffer is full.
push_back(buffer, packet) ==
    IF buffer_full(buffer) THEN buffer ELSE Append(buffer, packet)

\* Stream::poll of PacketDistributor; inner is what inner.poll() answers and
\* p_type the type of the packet it yields.
distributor_poll(inner, p_type) ==
    LET packet == Packet(arrived + 1, p_type)
        to == buffer_stream_of(p_type)
    IN
    IF ~con_rc
    THEN \* the weak reference does not upgrade
         /\ dist_done' = TRUE
         /\ dist_notified' = FALSE
         /\ dist_op' = DistOp("None", NoPacket, "None", "Ready(None)")
         /\ UNCHANGED << arrived, command_buffer_stream, voice_buffer_stream,
                         forwarded, distributor_task >>
    ELSE IF inner = "Err"
    THEN \* self.inner.poll()?
         /\ dist_done' = TRUE
         /\ dist_notified' = FALSE
         /\ dist_op' = DistOp(inner, NoPacket, "None", "Err")
         /\ UNCHANGED << arrived, command_buffer_stream, voice_buffer_stream,
                         forwarded, distributor_task >>
    ELSE /\ distributor_task' = TRUE
         /\ IF inner = "Ready(Some)"
            THEN /\ arrived' = arrived + 1
                 /\ command_buffer_stream' =
                        IF to = "command_buffer_stream"
                        THEN push_back(command_buffer_stream, packet)
                        ELSE command_buffer_stream
                 /\ voice_buffer_stream' =
                        IF to = "voice_buffer_stream"
                        THEN push_back(voice_buffer_stream, packet)
                        ELSE voice_buffer_stream
                 /\ forwarded' = IF to = "None"
                                 THEN Append(forwarded, packet)
                                 ELSE forwarded
                 \* Request next packet; for_each polls again after an item
                 /\ dist_notified' = TRUE
                 /\ dist_done' = FALSE
                 /\ dist_op' = DistOp(inner, packet, to,
                                      IF to = "None" THEN "Ready(Some)"
                                      ELSE "NotReady")
            ELSE /\ dist_done' = (inner = "Ready(None)")
                 /\ dist_notified' = FALSE
                 /\ dist_op' = DistOp(inner, NoPacket, "None", inner)
                 /\ UNCHANGED << arrived, command_buffer_stream,
                                 voice_buffer_stream, forwarded >>

\* Connection::start_packet_distributor spawns the distributor.
StartPacketDistributor ==
    /\ con_rc
    /\ dist_op.res = "new"
    /\ dist_notified' = TRUE
    /\ dist_op' = DistOp("None", NoPacket, "None", "spawned")
    /\ UNCHANGED << arrived, command_buffer_stream, voice_buffer_stream,
                    forwarded, distributor_task, dist_done,
                    rvars, wvars, mvars, drops, pvars, rtts >>

\* The inner stream has a packet and notifies the task that polled it.
InnerReady ==
    /\ con_rc
    /\ distributor_task /\ ~dist_notified /\ ~dist_done
    /\ arrived < MaxArrivals
    /\ dist_notified' = TRUE
    /\ UNCHANGED << arrived, command_buffer_stream, voice_buffer_stream,
                    forwarded, distributor_task, dist_done, dist_op,
                    rvars, wvars, mvars, drops, pvars, rtts >>

\* The event loop polls the distributor.
DistributorPoll ==
    /\ dist_notified /\ ~dist_done
    /\ \E inner \in InnerResults, p_type \in InboundTypes :
          /\ inner = "Ready(Some)" => arrived < MaxArrivals
          /\ distributor_poll(inner, p_type)
    /\ UNCHANGED << rvars, wvars, mvars, drops, pvars, rtts >>

\* The buffer a buffer stream reads.
BufferOf(b) ==
    IF b = "ConnectionCommandPacketStream" THEN command_buffer_stream
    ELSE voice_buffer_stream

\* A consumer polls the command or the voice stream: the front of the
\* buffer, NotReady when it is empty.
BufferStreamPoll(b) ==
    LET buffer == BufferOf(b)
        rest == IF con_rc /\ buffer # << >> THEN Tail(buffer) ELSE buffer
    IN  /\ buffer_poll(b, IF buffer = << >> THEN "NotReady" ELSE "Ready(Some)")
        /\ command_buffer_stream' =
              IF b = "ConnectionCommandPacketStream" THEN rest
              ELSE command_buffer_stream
        /\ voice_buffer_stream' =
              IF b = "ConnectionVoicePacketStream" THEN rest
              ELSE voice_buffer_stream
        /\ UNCHANGED << con_rc, snapshot, rvars, wvars, mvars, drops, rtts,
                        arrived, forwarded, distributor_task, dist_notified,
                        dist_done, dist_op >>

\* Connection::new
PipelineInit ==
    /\ arrived = 0
    /\ command_buffer_stream = << >>
    /\ voice_buffer_stream = << >>
    /\ forwarded = << >>
    /\ distributor_task = FALSE
    /\ dist_notified = FALSE
    /\ dist_done = FALSE
    /\ dist_op = DistOp("None", NoPacket, "None", "new")
    /\ con_rc = TRUE
    /\ chains = [pslot \in Slots |->
                   IF pslot \in {"udp_packet_stream", "udp_packet_sink"}
                   THEN Some(0) ELSE None]
    /\ snapshot = [f \in Facades |-> [made |-> FALSE, at |-> ChainsOf(f, chains)]]
    /\ fac_op = FacOp("Connection", "new", TRUE, None, "")

\* ------------------------------------------------------ the specifications
\* A configuration whose Normal and Stalling states end at the first poll
\* that transmits, so that every state is reached without the clock.
QuickConfig(n) ==
    [SmallConfig EXCEPT !.max_send_queue_len = n, !.srtt = 40,
                          !.stalling_timeout = 0]

\* The longest send queue of the queue specifications.
MaxQueueLen == 3

\* The resender with its clock: one producer, a udp sink that is ready, a
\* peer that answers or not.
PeerInit(ks) == drops \in ks

Init ==
    /\ ResenderInit(SmallConfig)
    /\ WindowInit(0)
    /\ ManagerInit
    /\ PeerInit({0})
    /\ PipelineInit

Next ==
    \/ Poll(ReadyRooms, ReadyFlushes)
    \/ ProducerSend("p1", {"Command"}, MaxTimedPackets)
    \/ AckPacket
    \/ UdpPacketReceived
    \/ HandleEvent(ResenderEvents)
    \/ Tick

Spec == Init /\ [][Next]_vars

\* The resender with a peer that never answers, polled fairly.
SilentNext ==
    \/ Poll(ReadyRooms, ReadyFlushes)
    \/ ProducerSend("p1", PacketTypes, MaxTimedPackets)
    \/ HandleEvent(ResenderEvents)
    \/ Tick

SilentSpec ==
    /\ Init
    /\ [][SilentNext]_vars
    /\ WF_vars(Poll(ReadyRooms, ReadyFlushes))
    /\ WF_vars(Tick)

\* The send queue without the clock.
QueueNext ==
    \/ Poll(ReadyRooms, ReadyFlushes)
    \/ ProducerSend("p1", PacketTypes, MaxPackets)
    \/ AckPacket
    \/ UdpPacketReceived
    \/ HandleEvent(ResenderEvents)

QueueInit ==
    /\ ResenderInit(QuickConfig(MaxQueueLen))
    /\ WindowInit(0)
    /\ ManagerInit
    /\ PeerInit({0}) /\ PipelineInit

QueueSpec == QueueInit /\ [][QueueNext]_vars

BackpressureInit ==
    /\ \E n \in 1..(MaxQueueLen - 1) : ResenderInit(QuickConfig(n))
    /\ WindowInit(0)
    /\ ManagerInit
    /\ PeerInit({0}) /\ PipelineInit

\* The resender with a clock, a queue of one record and a udp sink that may
\* stay unflushed after it took a packet.
UnflushedInit ==
    /\ ResenderInit([SmallConfig EXCEPT !.max_send_queue_len = 1])
    /\ WindowInit(0)
    /\ ManagerInit
    /\ PeerInit({0})
    /\ PipelineInit

UnflushedNext ==
    \/ Poll(ReadyRooms, AnyFlushes)
    \/ SinkReady
    \/ ProducerSend("p1", {"Command"}, MaxTimedPackets)
    \/ AckPacket
    \/ UdpPacketReceived
    \/ HandleEvent(ResenderEvents)
    \/ Tick

UnflushedSpec == UnflushedInit /\ [][UnflushedNext]_vars

\* The same with producers that compete for a short queue.
BackpressureNext ==
    \/ Poll(ReadyRooms, ReadyFlushes)
    \/ \E p \in Producers : ProducerSend(p, {"Command"}, MaxPackets)
    \/ AckPacket
    \/ UdpPacketReceived
    \/ HandleEvent(ResenderEvents)

BackpressureSpec == BackpressureInit /\ [][BackpressureNext]_vars

\* The receive window.
WindowSpecInit ==
    /\ ResenderInit(SmallConfig)
    /\ \E n \in StartIds : WindowInit(n)
    /\ ManagerInit
    /\ PeerInit({0}) /\ PipelineInit

WindowSpec == WindowSpecInit /\ [][Receive]_vars

\* The ConnectionManager.
ManagerNext ==
    \/ \E c \in Conns : AddConnection(c)
    \/ \E c \in Conns : ConnectDone(c)
    \/ \E c \in Conns : ConnectFailed(c)
    \/ \E c \in Conns : Connected(c)
    \/ \E c \in Conns, n \in {"InitServer", "Other", "None"} :
          FirstNotification(c, n)
    \/ RemoveConnection
    \/ \E c \in Conns : DisconnectAcked(c)
    \/ \E c \in Conns : ResenderChange(c)
    \/ \E c \in Conns : ResenderTimeout(c)

ManagerSpec == Init /\ [][ManagerNext]_vars

\* The handshake of the resender: clientinit is queued in Connecting and the
\* peer ignores the first `drops` transmissions of it.
MaxDrops == 2

\* connecting_timeout from one connecting_interval up to the longest time
\* the clock measures, in steps of half an interval.
ConnectingTimeouts ==
    {(SmallConfig.connecting_interval * n) \div 2 : n \in 2..(2 * MaxAge)}

ClientInit == [p_type |-> "Command", p_id |-> 0]

\* The transmission the peer answers has just been made.
AnswerDue ==
    /\ con_alive
    /\ state = "Connecting"
    /\ \E i \in DOMAIN to_send :
          /\ Key(to_send[i]) = ClientInit
          /\ to_send[i].tries = drops + 1
          /\ to_send[i].last = 0

\* The peer answers: the answer acknowledges clientinit ...
PeerAnswers == AnswerDue /\ AckPacket

\* ... and makes the client Connected.
PeerConnected == op.name = "ack_packet" /\ HandleEvent({"Connected"})

\* Time passes, but not while an answer of the peer is being handled.
HandshakeTick == ~AnswerDue /\ op.name # "ack_packet" /\ Tick

HandshakeInit ==
    /\ \E t \in ConnectingTimeouts :
          ResenderInit([SmallConfig EXCEPT !.connecting_timeout = t])
    /\ WindowInit(0)
    /\ ManagerInit
    /\ PeerInit(0..MaxDrops)
    /\ PipelineInit

HandshakeNext ==
    \/ Poll(ReadyRooms, ReadyFlushes)
    \/ ProducerSend("p1", {"Command"}, 1)
    \/ PeerAnswers
    \/ PeerConnected
    \/ HandshakeTick

HandshakeSpec == HandshakeInit /\ [][HandshakeNext]_vars

\* The resender with its clock and a round trip time that varies or not.
SrttDevs == {0, 1}

TimeoutInit ==
    /\ \E d \in SrttDevs : ResenderInit([SmallConfig EXCEPT !.srtt_dev = d])
    /\ WindowInit(0)
    /\ ManagerInit
    /\ PeerInit({0})
    /\ PipelineInit

TimeoutSpec == TimeoutInit /\ [][Next]_vars

\* The round trip estimate alone: a fresh resender and a run of calls of
\* update_srtt.  Durations are in nanoseconds here.
MaxAcks == 3

\* The configured start values of srtt.
SrttStarts == 8..15

\* The measured round trip times.
Rtts == {0, 7, 8, 15, 23, 33}

SrttInit ==
    /\ \E s \in SrttStarts : ResenderInit([SmallConfig EXCEPT !.srtt = s])
    /\ WindowInit(0)
    /\ ManagerInit
    /\ PeerInit({0})
    /\ PipelineInit

SrttNext == \E rtt \in Rtts : Len(rtts) < MaxAcks /\ UpdateSrtt(rtt)

SrttSpec == SrttInit /\ [][SrttNext]_vars

\* The pipelines of a Connection and the facades on them.
PipelineNext ==
    \/ \E f \in Facades : GetFacade(f)
    \/ \E pslot \in Slots : ApplyWrapper(pslot)
    \/ InstallPackets
    \/ \E f \in Facades : FacadePoll(f)
    \/ \E f \in Facades : FacadeSink(f)
    \/ \E b \in BufferStreams : BufferPoll(b)
    \/ DropConnection

PipelineSpec == Init /\ [][PipelineNext]_vars

\* The distributor, the consumers of its buffers and the ResendFuture of a
\* Connection that may be dropped.
DistributorNext ==
    \/ StartPacketDistributor
    \/ InnerReady
    \/ DistributorPoll
    \/ \E b \in {"ConnectionCommandPacketStream",
                  "ConnectionVoicePacketStream"} : BufferStreamPoll(b)
    \/ Poll(ReadyRooms, ReadyFlushes)
    \/ DropConnection

DistributorSpec == Init /\ [][DistributorNext]_vars

\* The event loop polls every task that is scheduled.
DistributorFairSpec ==
    /\ DistributorSpec
    /\ WF_vars(DistributorPoll)
    /\ WF_vars(Poll(ReadyRooms, ReadyFlushes))

\* ------------------------------------------------------------ the claims
\* The keys of the records a run with the clock can queue.
AllKeys == [p_type : PacketTypes, p_id : 0..(MaxTimedPackets - 1)]

\* C1: with a peer that never acknowledges, a fairly polled future and
\* firing timers, no record stays queued forever on a live connection,
\* whatever state the resender is in: again and again the record is out of
\* the queue or the connection is terminated.
C1_NoRecordForever ==
    \A k \in AllKeys : []<>(k \notin Keys(to_send) \/ ~con_alive)

\* C1: the resender is in Normal with srtt grown to normal_timeout and a
\* record it has retransmitted MaxTries times.
C1_StuckInNormal ==
    /\ con_alive
    /\ state = "Normal"
    /\ srtt = config.normal_timeout
    /\ \E i \in DOMAIN to_send : to_send[i].tries = MaxTries

\* The record of queue q with key k.
RecOf(q, k) == q[CHOOSE i \in DOMAIN q : Key(q[i]) = k]

\* The packets a poll has sent, s, are in priority order for the queue q it
\* found in state st: in a heap state each sent record outranks every record
\* that was not sent before it, in Stalling only the front record is sent,
\* in Dead nothing.
InPriorityOrder(st, q, s) ==
    IF IsHeapState(st)
    THEN \A n \in DOMAIN s : \A r \in DOMAIN q :
            Key(q[r]) \notin {s[m] : m \in 1..n} =>
                cmp(RecOf(q, s[n]), q[r]) >= 0
    ELSE IF st = "Stalling"
    THEN s = << >> \/ s = << Key(q[1]) >>
    ELSE s = << >>

\* C2: ack_packet(p_type, p_id) removes exactly the queued record with that
\* key, wherever it sits, and leaves every other record queued with its time
\* stamps; a packet that is sent is a queued one, so an acked packet is not
\* sent again, and the packets of one poll are sent in priority order.
C2_AckRemovesExactly ==
    [][ /\ op'.name = "ack_packet" =>
            LET k == [p_type |-> op'.p_type, p_id |-> op'.p_id] IN
            /\ Keys(to_send') = Keys(to_send) \ {k}
            /\ Len(to_send') = Cardinality(Keys(to_send'))
            /\ (op'.res = "removed") <=> (k \in Keys(to_send))
            /\ \A j \in DOMAIN to_send' :
                  LET old == RecOf(to_send, Key(to_send'[j])) IN
                  /\ to_send'[j].sent = old.sent
                  /\ to_send'[j].last = old.last
                  /\ to_send'[j].tries \in {old.tries, 0}
        /\ SeqToSet(sent_now') \subseteq Keys(to_send) \cap Keys(to_send')
        /\ InPriorityOrder(state, to_send, sent_now')
      ]_vars

\* C2: of the queue {0, 1, 2} packet 1 was acked, and the next poll has sent
\* 0 then 2 only.
C2_MiddleAcked ==
    /\ sent_now = << [p_type |-> "Command", p_id |-> 0],
                     [p_type |-> "Command", p_id |-> 2] >>
    /\ [p_type |-> "Command", p_id |-> 1] \in wire
    /\ Keys(to_send) = {[p_type |-> "Command", p_id |-> 0],
                        [p_type |-> "Command", p_id |-> 2]}

\* The item producer p hands to start_send in this step.
ItemOf(p) ==
    IF pstate[p] = "woken" THEN pitem[p]
    ELSE LET t == CHOOSE t \in PacketTypes : next_id'[t] # next_id[t]
         IN  [p_type |-> t, p_id |-> next_id[t]]

\* C3: in every state start_send is NotReady exactly when the queue holds
\* max_send_queue_len records; then the queue is unchanged and the caller is
\* parked with its item; otherwise the record is appended with tries = 0 and
\* the future is woken.  The queue never holds more than max_send_queue_len.
C3_Backpressure ==
    [][ /\ Len(to_send') <= config.max_send_queue_len
        /\ \A p \in Producers :
             ProducerSend(p, PacketTypes, MaxPackets) =>
                LET full == Len(to_send) >= config.max_send_queue_len IN
                /\ (op'.res = "NotReady") <=> full
                /\ full =>
                     /\ to_send' = to_send
                     /\ pstate'[p] = "parked"
                     /\ pitem'[p] = ItemOf(p)
                     /\ p \in resender_task'
                /\ ~full =>
                     /\ Len(to_send') = Len(to_send) + 1
                     /\ SubSeq(to_send', 1, Len(to_send)) = to_send
                     /\ Key(to_send'[Len(to_send')]) = ItemOf(p)
                     /\ to_send'[Len(to_send')].tries = 0
                     /\ fut_notified'
                     /\ pstate'[p] = "idle"
      ]_vars

\* C3: start_send was refused in Dead with a queue of max_send_queue_len.
C3_RefusedInDead ==
    /\ state = "Dead"
    /\ op.name = "start_send" /\ op.res = "NotReady"
    /\ Len(to_send) = config.max_send_queue_len
    /\ \E p \in Producers : pstate[p] = "parked" /\ p \in resender_task

\* Every ack_packet call that removes a record wakes every parked producer,
\* which keeps its item.
AckWakesParked ==
    (op'.name = "ack_packet" /\ op'.res = "removed") =>
        /\ resender_task' = {}
        /\ \A p \in resender_task : pstate'[p] = "woken" /\ pitem'[p] = pitem[p]

\* Producer p retries its start_send in this step.
Retries(p) == pstate[p] = "woken" /\ pstate'[p] # "woken"

\* The retry of producer p is accepted: its item is the new last record.
RetryAccepted(p) ==
    /\ pstate'[p] = "idle"
    /\ Len(to_send') = Len(to_send) + 1
    /\ Key(to_send'[Len(to_send')]) = pitem[p]

\* C4 as claimed: a producer refused on a full queue is woken by the next ack
\* that removes a record, and its retry of the same item is then accepted.
C4_RetryAccepted ==
    [][ /\ AckWakesParked
        /\ \A p \in Producers :
             (Retries(p) /\ slot[p] \in {"freed", "taken"}) => RetryAccepted(p)
      ]_vars

\* C4: a producer refused on a full queue is woken by the next ack that
\* removes a record, and its retry of the same item is then accepted provided
\* no other start_send was accepted since that ack.
C4_RetryAcceptedIfSlotLeft ==
    [][ /\ AckWakesParked
        /\ \A p \in Producers :
             (Retries(p) /\ slot[p] = "freed") => RetryAccepted(p)
      ]_vars

\* C4: with max_send_queue_len = 2 a parked producer was woken by an ack and
\* its retry was accepted into the freed slot.
C4_RetryWentIn ==
    /\ config.max_send_queue_len = 2
    /\ Len(to_send) = 2
    /\ op.name = "start_send" /\ op.res = "Ready"
    /\ \E p \in Producers : slot[p] = "accepted"

\* C5: in_receive_window accepts a packet id p at next id n if and only if
\* (p - n) mod 2^16 < 2^15.
C5_HalfWindow ==
    win_op.p_type # "None" =>
        (win_op.ok <=>
            (win_op.p_id - win_op.cur_next + IdSpace) % IdSpace < IdSpace \div 2)

\* C5: the packet 2^15 - 1 ids ahead of next id 0 has been refused.
C5_Refused ==
    /\ win_op.p_type # "None"
    /\ win_op.cur_next = 0
    /\ win_op.p_id = IdSpace \div 2 - 1
    /\ ~win_op.ok

\* The distance of an id from the next expected id of its type.
Ahead(t, p) == (p - incoming_p_ids[t].id + IdSpace) % IdSpace

\* C6: for each reliable packet type the delivered ids are the contiguous
\* run that starts at the first expected id, in order, without gap or
\* duplicate, and each parked id lies ahead of the next expected id inside
\* the half window: it waits until the next id reaches it.
C6_InOrderDelivery ==
    \A t \in RecvTypes :
        /\ \A i \in DOMAIN delivered[t] :
              delivered[t][i] = (first_id[t] + i - 1) % IdSpace
        /\ incoming_p_ids[t].id = (first_id[t] + Len(delivered[t])) % IdSpace
        /\ \A p \in receive_queue[t] :
              Ahead(t, p) > 0 /\ Ahead(t, p) < IdSpace \div 2

\* C6: from next = 1 the ids 1, 2, 3 have been delivered, 2 being the last to
\* come in, so that 3 was parked and released by it.
C6_ParkedReleased ==
    \E t \in RecvTypes :
        /\ first_id[t] = 1
        /\ delivered[t] = << 1, 2, 3 >>
        /\ win_op.p_type = t
        /\ win_op.p_id = 2

\* C7: add_connection resolves with the smallest id that is not a key of the
\* connection map, which lies in [0, N] for N connections, and is 0 on an
\* empty manager; the id is then a key of the map.
C7_SmallestFreeId ==
    (cm_op.name = "add_connection" /\ cm_op.res = "Ok") =>
        /\ cm_op.id \notin cm_op.keys
        /\ \A j \in 0..(cm_op.id - 1) : j \in cm_op.keys
        /\ cm_op.id <= Cardinality(cm_op.keys)
        /\ (cm_op.keys = {} => cm_op.id = 0)
        /\ cm_op.id \in DOMAIN connections

\* C7: a connect has resolved with id 0 while id 1 was in use, after a
\* removal.
C7_GapFilled ==
    /\ cm_op.name = "add_connection"
    /\ cm_op.res = "Ok"
    /\ cm_op.keys = {1}
    /\ cm_op.id = 0

\* C8: no two Connections that are alive were given the same ConnectionId.
C8_NoReuseWhileAlive ==
    \A a, b \in Conns :
        (/\ a # b
         /\ handshake[a] = "done" /\ handshake[b] = "done"
         /\ resolved_id[a] = resolved_id[b])
        => ~(con[a] = "alive" /\ con[b] = "alive")

\* C8: an id was handed out again while its first Connection is still
\* disconnecting.
C8_Reused ==
    \E a, b \in Conns :
        /\ a # b
        /\ handshake[a] = "done" /\ handshake[b] = "done"
        /\ resolved_id[a] = resolved_id[b]
        /\ con[a] = "alive" /\ disconnect[a] = "waiting"
        /\ con[b] = "alive"

\* C9: once the resender has ended a connection by a timeout,
\* get_connection of the id of that connection returns None.
C9_TimedOutIsGone ==
    (/\ cm_op.name = "resender" /\ cm_op.res = "EndConnection"
     /\ handshake[cm_op.id] = "done")
    => get_connection(resolved_id[cm_op.id]) = "None"

\* C9: the resender has ended a connection from Dead and the map still holds
\* the connection under its id.
C9_StillListed ==
    /\ cm_op.name = "resender" /\ cm_op.res = "EndConnection"
    /\ handshake[cm_op.id] = "done"
    /\ resender[cm_op.id] = "Dead"
    /\ con[cm_op.id] = "destroyed"
    /\ contains_key(connections, resolved_id[cm_op.id])
    /\ connections[resolved_id[cm_op.id]] = cm_op.id

\* C10: remove_connection of an id that is not in the map resolves at once
\* with success and changes nothing: no map entry, no resender state, no
\* packet sent, no pending future.
C10_RemoveUnknown ==
    [][(cm_op'.name = "remove_connection" /\ cm_op'.id \notin DOMAIN connections)
       => /\ cm_op'.res = "Ok"
          /\ UNCHANGED << connections, handshake, resolved_id, con, resender,
                          disconnect, packets >>]_vars

\* C10: remove_connection was called a second time with an id that is no
\* longer in the map, while another connection is.
C10_SecondRemove ==
    /\ cm_op.name = "remove_connection"
    /\ cm_op.id \notin cm_op.keys
    /\ cm_op.keys # {}
    /\ cm_op.res = "Ok"
    /\ \E c \in Conns : /\ handshake[c] = "done"
                        /\ resolved_id[c] = cm_op.id
                        /\ disconnect[c] # "none"

\* C11: remove_connection on a live id switches the resender to Disconnecting
\* before clientdisconnect is queued and sends clientdisconnect; its future
\* resolves only when the connection has become Disconnected, by the ack of
\* clientdisconnect or by disconnect_timeout, never earlier.
C11_Disconnect ==
    [][ /\ (/\ cm_op'.name = "remove_connection"
            /\ cm_op'.id \in DOMAIN connections
            /\ con[connections[cm_op'.id]] = "alive") =>
                LET c == connections[cm_op'.id] IN
                /\ resender'[c] = "Disconnecting"
                /\ packets'[c] =
                      Append(packets[c],
                             Command("clientdisconnect", "Disconnecting"))
                /\ disconnect'[c] = "waiting"
                /\ cm_op'.res = "pending"
        /\ \A c \in Conns :
              (disconnect[c] # "done" /\ disconnect'[c] = "done") =>
                /\ disconnect[c] = "waiting"
                /\ resender[c] = "Disconnecting"
                /\ con'[c] = "destroyed"
                /\ \/ cm_op'.name = "disconnected" /\ cm_op'.res = "acked"
                   \/ /\ cm_op'.name = "resender"
                      /\ cm_op'.res = "EndConnection"
                      /\ cm_op'.id = c
      ]_vars

\* C11: the future of a remove_connection call has resolved by the
\* disconnect_timeout of the resender.
C11_ResolvedByTimeout ==
    /\ cm_op.name = "resender" /\ cm_op.res = "EndConnection"
    /\ disconnect[cm_op.id] = "done"
    /\ resender[cm_op.id] = "Disconnecting"

\* The steps of the future of add_connection, in their order.
HandshakeOrder ==
    { << "idle", "connect" >>, << "connect", "clientinit" >>,
      << "connect", "failed" >>, << "clientinit", "initserver" >>,
      << "initserver", "done" >>, << "initserver", "failed" >> }

\* C12: add_connection resolves with a ConnectionId only after, in this
\* order, the transport connect has completed, clientinit has been sent, the
\* client is Connected and an initserver notification has arrived; when it
\* resolves, the id is a key of the manager: get_connection(id) is Some.
C12_HandshakeOrder ==
    [][ \A c \in Conns :
          handshake'[c] # handshake[c] =>
            /\ << handshake[c], handshake'[c] >> \in HandshakeOrder
            /\ handshake'[c] = "clientinit" =>
                  /\ con'[c] = "alive"
                  /\ packets'[c] = << Command("clientinit", "Connecting") >>
            /\ handshake'[c] = "initserver" =>
                  /\ resender'[c] = "Normal"
                  /\ packets[c] # << >>
            /\ handshake'[c] = "done" =>
                  /\ cm_op'.name = "add_connection" /\ cm_op'.res = "Ok"
                  /\ cm_op'.n = "InitServer"
                  /\ resolved_id'[c] = cm_op'.id
                  /\ contains_key(connections', cm_op'.id)
                  /\ connections'[cm_op'.id] = c
                  /\ cm_op'.id \notin DOMAIN connections
      ]_vars

\* C12: a second add_connection has resolved with an id that
\* get_connection finds.
C12_Resolved ==
    /\ cm_op.name = "add_connection" /\ cm_op.res = "Ok"
    /\ get_connection(cm_op.id) = "Some"
    /\ handshake[connections[cm_op.id]] = "done"
    /\ cm_op.keys # {}

\* C13: when the first item of the command stream after Connected is not an
\* initserver notification, or the stream has ended, the connect future
\* fails with "Got no initserver", no ConnectionId is allocated and the map
\* of the manager is unchanged.
C13_NoInitServer ==
    [][ (cm_op'.name = "add_connection" /\ cm_op'.n \in {"Other", "None"}) =>
            /\ cm_op'.res = "Got no initserver"
            /\ UNCHANGED << connections, resolved_id >>
            /\ \E c \in Conns :
                  /\ handshake[c] = "initserver"
                  /\ handshake'[c] = "failed"
                  /\ \A id \in DOMAIN connections' : connections'[id] # c
      ]_vars

\* C13: a connect future has failed on an ended command stream while the
\* manager holds another connection.
C13_Failed ==
    /\ cm_op.name = "add_connection" /\ cm_op.n = "None"
    /\ cm_op.res = "Got no initserver"
    /\ connections # << >>
    /\ \E c \in Conns : handshake[c] = "failed"

\* K * connecting_interval < connecting_timeout, K the number of
\* transmissions the peer ignores.
RetriesFit == drops * config.connecting_interval < config.connecting_timeout

\* C14: when the peer ignores the first K transmissions of the clientinit
\* queued in Connecting and answers the next one, the connection is
\* established if K * connecting_interval < connecting_timeout, and it is
\* ended by the connecting timeout otherwise.
C14_RetriesFit ==
    /\ state = "Normal" => RetriesFit
    /\ (~con_alive /\ next_id["Command"] = 1) => ~RetriesFit

\* C14: the connection is established after the peer ignored one
\* transmission, with a connecting_timeout of one and a half intervals.
C14_Established ==
    /\ state = "Normal" /\ con_alive
    /\ drops = 1
    /\ 2 * config.connecting_timeout = 3 * config.connecting_interval

\* C15: voice packets may be sent if and only if the resender is in Normal:
\* send_voice_packets is true in Normal and false in Connecting, Stalling,
\* Dead and Disconnecting, in every reachable state.
C15_VoiceOnlyInNormal ==
    /\ state \in {"Connecting", "Normal", "Stalling", "Dead", "Disconnecting"}
    /\ send_voice_packets <=> state = "Normal"

\* C15: the resender has fallen from Normal to Stalling with a packet
\* queued, and voice is suppressed.
C15_SuppressedInStalling ==
    /\ state = "Stalling" /\ con_alive
    /\ to_send # << >>
    /\ ~send_voice_packets

\* C16: once the Connection is destroyed, the next poll of every stream that
\* holds a weak reference to it (UdpPackets, Packets, the command, the voice
\* and the raw udp stream) returns the end of the stream.
C16_EndOfStream ==
    (fac_op.name = "poll" /\ ~fac_op.alive) => fac_op.res = "Ready(None)"

\* C16: the voice stream was polled after the Connection was dropped and
\* has ended.
C16_VoiceEnded ==
    /\ ~con_rc
    /\ fac_op.f = "ConnectionVoicePacketStream"
    /\ fac_op.name = "poll"
    /\ fac_op.res = "Ready(None)"

\* The slot an operation of a facade works on.
SlotOf(f, name) == IF name = "poll" THEN StreamSlot(f) ELSE SinkSlot(f)

\* C17: an operation of a UdpPackets or Packets facade goes through the
\* chain that is installed in the Connection when it is called, not the one
\* that was there when the facade was created, and puts that chain back:
\* every installed slot is filled again when the operation returns.
C17_CurrentChain ==
    [][ (/\ fac_op'.f \in Facades
         /\ fac_op'.name \in SinkOps \cup {"poll"}
         /\ fac_op'.alive
         /\ fac_op'.res # "panic") =>
            /\ fac_op'.used = chains[SlotOf(fac_op'.f, fac_op'.name)]
            /\ \A pslot \in Slots : chains[pslot] # None => chains'[pslot] # None
            /\ chains' = chains
      ]_vars

\* C17: a facade created on the bare udp stream has polled through a chain
\* of wrappers that were installed later.
C17_LaterWrapperUsed ==
    /\ fac_op.f = "UdpPackets" /\ fac_op.name = "poll"
    /\ snapshot["UdpPackets"].made
    /\ snapshot["UdpPackets"].at["udp_packet_stream"] = Some(0)
    /\ fac_op.used = Some(MaxWrappers)
    /\ chains["udp_packet_stream"] = Some(MaxWrappers)

\* The transitions of the resender's state machine: from, to and the call
\* that made the change.
ListedTransition(from, to, by) ==
    \/ from = "Connecting" /\ to = "Normal"
          /\ by.name = "handle_event" /\ by.res = "Connected"
    \/ from = "Normal" /\ to = "Stalling" /\ by.name = "poll"
    \/ from = "Stalling" /\ to = "Normal" /\ by.name = "ack_packet"
    \/ from = "Stalling" /\ to = "Dead" /\ by.name = "poll"
    \/ from = "Dead" /\ to = "Stalling" /\ by.name = "udp_packet_received"
    \/ to = "Disconnecting"
          /\ by.name = "handle_event" /\ by.res = "Disconnecting"

\* C18: the resender changes its state only along the listed transitions;
\* every other call in every other state leaves the state as it is, so a
\* Connected event in Stalling, Dead or Disconnecting and a Connecting event
\* after Connecting was left change nothing.
C18_ListedOnly ==
    [][state' # state => ListedTransition(state, state', op')]_vars

\* The state timeout of a state that ends the connection has passed.
TerminalTimeout(st, t) ==
    \/ st = "Connecting" /\ t >= config.connecting_timeout
    \/ st = "Dead" /\ t >= config.dead_timeout
    \/ st = "Disconnecting" /\ t >= config.disconnect_timeout

\* C19: the resender future removes the connection only when the
\* connecting_timeout has passed in Connecting, the dead_timeout in Dead or
\* the disconnect_timeout in Disconnecting; in Normal and in Stalling it
\* never ends the connection.
C19_EndOnlyOnTimeout ==
    [][ (con_alive /\ ~con_alive') =>
            /\ op'.name = "poll" /\ op'.res = "EndConnection"
            /\ TerminalTimeout(state, start_time)
            /\ state' = state
      ]_vars

\* C19: the future has ended a connection that was Dead for dead_timeout.
C19_EndedInDead ==
    /\ ~con_alive
    /\ state = "Dead"
    /\ op.name = "poll" /\ op.res = "EndConnection"

\* C20: with a peer that never acknowledges and a fairly polled future, a
\* resender in Normal with a queued record leaves Normal after a bounded
\* number of retransmissions, for every configuration, srtt_dev = 0 included.
C20_LeavesNormal ==
    (con_alive /\ state = "Normal" /\ to_send # << >>) ~> (state # "Normal")

\* C20: in Normal the round trip time has grown to normal_timeout, the
\* retransmission timeout with srtt_dev = 0 is not beyond normal_timeout, and
\* the future has just retransmitted a record once more.
C20_RetransmitsAtNormalTimeout ==
    /\ con_alive
    /\ state = "Normal"
    /\ config.srtt_dev = 0
    /\ srtt + 4 * config.srtt_dev = config.normal_timeout
    /\ op.name = "poll"
    /\ \E i \in DOMAIN to_send :
          to_send[i].tries = MaxTries /\ to_send[i].last = 0

\* C21: every transmission of a record that the udp sink accepts adds one
\* to its tries and stamps last = now: the tries of every queued record is
\* the number of its transmissions the sink accepted since tries was last
\* set to 0, and the last of a transmitted record is the time of its last
\* accepted transmission.
C21_TriesCountTransmissions ==
    \A i \in DOMAIN to_send :
        /\ to_send[i].tries = to_send[i].txs
        /\ to_send[i].tx # -1 => to_send[i].last = to_send[i].tx

\* C21: the poll that switched from Normal to Stalling has put a record on
\* the udp sink without stamping it.
C21_UnstampedTransmission ==
    /\ state = "Stalling"
    /\ op.name = "poll" /\ op.from = "Normal"
    /\ \E i \in DOMAIN to_send :
          /\ Key(to_send[i]) \in SeqToSet(sent_now)
          /\ to_send[i].tx = 0
          /\ to_send[i].last > 0

\* The retransmission timeout of the current state.
Rto == rto_of(state, srtt, srtt_dev)

\* The send loop ran in the poll that made this step.
SendLoopRan ==
    /\ op'.name = "poll"
    /\ op'.res \in {"Stalling", "blocked", "wait", "idle"}

\* The record the send loop looks at first is not yet due.
HeadNotDue ==
    /\ peek_mut_next_record(state, to_send) # {}
    /\ \A i \in peek_mut_next_record(state, to_send) :
          to_send[i].tries > 0 /\ to_send[i].last < Rto

\* C22: a record with tries > 0 is put on the udp sink only when the
\* retransmission timeout of the state has passed since its last accepted
\* transmission (elapsed times are known up to AgeCap); and a poll that
\* finds the record of the highest priority not yet due arms the timer
\* and transmits nothing.
C22_NotBeforeRto ==
    [][ SendLoopRan =>
          /\ \A k \in SeqToSet(sent_now') :
                RecOf(to_send, k).tries > 0 =>
                    \/ RecOf(to_send, k).tx >= Rto
                    \/ RecOf(to_send, k).tx = AgeCap
          /\ (HeadNotDue /\ Rto <= AgeCap) =>
                /\ sent_now' = << >>
                /\ op'.res = "wait"
                /\ timeout' >= 1
      ]_vars

\* C22: Stalling has retransmitted a record in the same instant in which
\* Normal had transmitted it.
C22_RetransmittedAtOnce ==
    /\ state = "Stalling"
    /\ op.name = "poll" /\ op.from = "Stalling"
    /\ sent_now # << >>
    /\ to_send[1].tx = 0 /\ to_send[1].tries > 1
    /\ start_time = 0

\* The ack_packet call of this step has updated the round trip estimate.
SrttUpdated ==
    /\ op'.name = "ack_packet"
    /\ \/ srtt_dev' # srtt_dev
       \/ state # "Stalling" /\ srtt' # srtt

\* C23: an ack updates srtt and srtt_dev only when the acked packet was put
\* on the wire exactly once since it was queued; the ack of a packet that
\* was transmitted more than once leaves the estimate untouched, also when
\* its tries was set to 0 by a state change in between.
C23_OnlyNeverRetransmitted ==
    [][ SrttUpdated =>
          /\ op'.res = "removed"
          /\ RecOf(to_send, [p_type |-> op'.p_type,
                             p_id |-> op'.p_id]).wired = 1
      ]_vars

\* C23: a queued record has tries = 1 after more than one transmission.
C23_ResentWithOneTry ==
    \E i \in DOMAIN to_send : to_send[i].tries = 1 /\ to_send[i].wired > 1

\* C24: a poll changes srtt only by doubling it when it transmits a record
\* with tries > 0 while srtt < normal_timeout, and the doubling is capped:
\* it never leaves srtt above normal_timeout.
C24_DoublingCapped ==
    [][ (op'.name = "poll" /\ srtt' # srtt) =>
          /\ srtt < config.normal_timeout
          /\ \E k \in SeqToSet(sent_now') : RecOf(to_send, k).tries > 0
          /\ srtt' <= config.normal_timeout
      ]_vars

\* C24: a loss has doubled srtt beyond normal_timeout.
C24_DoubledBeyondTimeout ==
    /\ op.name = "poll"
    /\ sent_now # << >>
    /\ srtt > config.normal_timeout

\* The smoothing recurrence SRTT <- 7*SRTT/8 + r/8 in exact arithmetic,
\* started from s0 and run over the round trip times rs: its value times
\* 8^Len(rs).
RECURSIVE ExactSrtt(_, _)
ExactSrtt(s0, rs) ==
    IF rs = << >> THEN s0
    ELSE 7 * ExactSrtt(s0, SubSeq(rs, 1, Len(rs) - 1))
           + rs[Len(rs)] * 8 ^ (Len(rs) - 1)

\* How far srtt is below the exact value of the recurrence, times
\* 8^Len(rtts).
SrttError == ExactSrtt(config.srtt, rtts) - srtt * 8 ^ Len(rtts)

Abs(x) == IF x < 0 THEN -x ELSE x

\* SRTT_DEV <- 3*SRTT_DEV/4 + |r - SRTT|/4 with the srtt before the step.
DevFromOldSrtt ==
    srtt_dev' = (3 * srtt_dev) \div 4 + Abs(rtts'[Len(rtts')] - srtt) \div 4

\* C25 as stated: after N acks of packets that were not retransmitted, srtt
\* is the value of the recurrence SRTT <- 7*SRTT/8 + r/8 started from the
\* configured srtt to within 1 ns, and each step computes srtt_dev from the
\* srtt before the step.
C25_Within1ns ==
    [][ op'.name = "update_srtt" =>
          /\ Abs(SrttError') <= 8 ^ Len(rtts')
          /\ DevFromOldSrtt
      ]_vars

\* C25 as the code has it: both quotients are truncated to whole
\* nanoseconds, so srtt is never above the value of the recurrence and
\* after N acks it is less than 2*N ns, and less than 14 ns, below it; each
\* step computes srtt_dev from the srtt before the step.
C25_Within2nsPerAck ==
    [][ op'.name = "update_srtt" =>
          /\ SrttError' >= 0
          /\ SrttError' < 2 * Len(rtts') * 8 ^ Len(rtts')
          /\ SrttError' < 14 * 8 ^ Len(rtts')
          /\ DevFromOldSrtt
      ]_vars

\* C25: srtt is more than 1 ns below the value of the recurrence.
C25_MoreThan1nsOff ==
    /\ op.name = "update_srtt"
    /\ SrttError > 8 ^ Len(rtts)

\* The key the call of this step was made with.
CalledKey == [p_type |-> op'.p_type, p_id |-> op'.p_id]

\* C26: every ack_packet call in Stalling, matching a queued record or
\* not, moves the resender to Normal with srtt = normal_timeout / 4 and
\* with exactly the records that remain, each with tries = 0.
C26_AckInStalling ==
    [][ (op'.name = "ack_packet" /\ state = "Stalling") =>
          /\ state' = "Normal"
          /\ srtt' = config.normal_timeout \div 4
          /\ Keys(to_send') = Keys(to_send) \ {CalledKey}
          /\ Len(to_send') = Cardinality(Keys(to_send'))
          /\ \A i \in DOMAIN to_send' : to_send'[i].tries = 0
      ]_vars

\* C26: an ack that matched no queued record has moved the resender from
\* Stalling to Normal, where a record that Stalling had transmitted waits
\* with tries = 0.
C26_UnmatchedAckInStalling ==
    /\ op.name = "ack_packet" /\ op.from = "Stalling" /\ op.res = "none"
    /\ state = "Normal"
    /\ \E i \in DOMAIN to_send :
          to_send[i].tx_state = "Stalling" /\ to_send[i].tries = 0

\* C27: the step from Normal to Stalling leaves a vector sorted by
\* ascending p_id with exactly the records that were queued in Normal, so
\* the record Stalling retries has the smallest p_id; a record that
\* start_send accepts in Stalling or Dead goes behind the records queued.
C27_SortedOnStalling ==
    [][ /\ (state = "Normal" /\ state' = "Stalling") =>
              /\ \A i, j \in DOMAIN to_send' :
                    i < j => to_send'[i].p_id <= to_send'[j].p_id
              /\ Keys(to_send') = Keys(to_send)
              /\ Len(to_send') = Len(to_send)
        /\ (/\ op'.name = "start_send" /\ op'.res = "Ready"
            /\ state \in {"Stalling", "Dead"}) =>
              /\ Len(to_send') = Len(to_send) + 1
              /\ SubSeq(to_send', 1, Len(to_send)) = to_send
      ]_vars

\* C27: Stalling was entered with several records, in the order of their
\* p_id, and a record queued in Stalling stands behind them.
C27_SortedThenAppended ==
    /\ state = "Stalling"
    /\ Len(to_send) = 3
    /\ to_send[1].p_id < to_send[2].p_id
    /\ to_send[1].queued_in # "Stalling" /\ to_send[2].queued_in # "Stalling"
    /\ to_send[3].queued_in = "Stalling"
    /\ to_send[3].p_id < to_send[2].p_id

C29_NothingSentInDead ==
    [][ /\ (op'.name = "poll" /\ state = "Dead") =>
              /\ sent_now' = << >>
              /\ wire' = wire
              /\ \A i \in DOMAIN to_send' : to_send'[i] = to_send[i]
        /\ (op'.name = "start_send" /\ state = "Dead") =>
              /\ op'.res = "Ready" <=>
                    Len(to_send) < config.max_send_queue_len
              /\ op'.res = "Ready" => Len(to_send') = Len(to_send) + 1
      ]_vars

\* C29: the future was polled in Dead while a record that was queued in
\* Dead fills the queue and was never transmitted.
C29_QueuedInDeadNotSent ==
    /\ state = "Dead"
    /\ op.name = "poll" /\ op.from = "Dead"
    /\ Len(to_send) = config.max_send_queue_len
    /\ \E i \in DOMAIN to_send :
          to_send[i].queued_in = "Dead" /\ to_send[i].tx = -1

\* C30: a poll in Disconnecting transmits only the disconnect packet, the
\* record queued after the Disconnecting event, and retransmits it every
\* disconnect_interval; the records that were queued when the event
\* arrived are not transmitted.
C30_OnlyDisconnectPacket ==
    [][ (op'.name = "poll" /\ state = "Disconnecting") =>
          \A k \in SeqToSet(sent_now') :
              /\ RecOf(to_send, k).queued_in = "Disconnecting"
              /\ RecOf(to_send, k).tx_state = "Disconnecting" =>
                    RecOf(to_send, k).tx >= config.disconnect_interval
      ]_vars

\* C30: Disconnecting has transmitted a record that was queued before the
\* Disconnecting event.
C30_OldRecordSent ==
    /\ state = "Disconnecting"
    /\ op.name = "poll" /\ op.from = "Disconnecting"
    /\ \E i \in DOMAIN to_send :
          /\ Key(to_send[i]) \in SeqToSet(sent_now)
          /\ to_send[i].queued_in # "Disconnecting"

\* C31: udp_packet_received moves the resender from Dead to Stalling with
\* the queue unchanged and a fresh start time; in every other state it
\* leaves the state, the queue, the start time, SRTT, SRTT_DEV and the
\* timers of the future as they were and notifies nobody.
C31_OnlyDeadRestarts ==
    [][ op'.name = "udp_packet_received" =>
          /\ to_send' = to_send
          /\ srtt' = srtt /\ srtt_dev' = srtt_dev
          /\ timeout' = timeout /\ state_timeout' = state_timeout
          /\ IF state = "Dead"
             THEN /\ state' = "Stalling"
                  /\ start_time' = 0
             ELSE /\ state' = state
                  /\ start_time' = start_time
                  /\ fut_notified' = fut_notified
      ]_vars

\* C31: a packet of the peer restarted a Dead resender that holds records.
C31_RestartedFromDead ==
    /\ op.name = "udp_packet_received" /\ op.from = "Dead"
    /\ state = "Stalling"
    /\ start_time = 0
    /\ to_send # << >>

\* The largest tries, last and p_id of the records cmp is compared on.
MaxCmp == 2

\* The fields of SendRecord that cmp reads.
CmpRecords == [tries : 0..MaxCmp, last : 0..MaxCmp, p_id : 0..MaxCmp]

\* The priority as the specification words it: a outranks b.  `last` is
\* elapsed time, so the earlier last attempt is the larger value.
Outranks(a, b) ==
    \/ a.tries = 0 /\ b.tries # 0
    \/ a.tries = 0 /\ b.tries = 0 /\ a.p_id < b.p_id
    \/ a.tries # 0 /\ b.tries # 0 /\ a.last > b.last
    \/ a.tries # 0 /\ b.tries # 0 /\ a.last = b.last /\ a.p_id < b.p_id

\* cmp is a total order that ranks the records as Outranks does.
CmpIsTotalOrder ==
    /\ \A a, b \in CmpRecords :
          /\ cmp(a, b) \in {-1, 0, 1}
          /\ cmp(a, b) = 0 - cmp(b, a)
          /\ cmp(a, b) = 1 <=> Outranks(a, b)
          /\ cmp(a, b) = 0 <=> (~Outranks(a, b) /\ ~Outranks(b, a))
    /\ \A a, b, c \in CmpRecords :
          /\ (cmp(a, b) >= 0 /\ cmp(b, c) >= 0) => cmp(a, c) >= 0
          /\ (cmp(a, b) = 0 /\ cmp(b, c) = 0) => cmp(a, c) = 0

\* The queue q as the send loop holds it when it chooses its n-th record
\* of the poll that sent s: the records sent before are stamped.
QueueAtSend(q, s, n) ==
    [i \in DOMAIN q |->
        IF Key(q[i]) \in {s[m] : m \in 1..(n - 1)}
        THEN [q[i] EXCEPT !.tries = bump_tries(@), !.last = 0]
        ELSE q[i]]

\* C32: cmp is a total order in which an unsent record outranks every sent
\* one, the smaller p_id ranks higher among unsent records, the earlier last
\* ranks higher among sent records and the smaller p_id breaks equal last;
\* in Connecting, Normal and Disconnecting no record of the queue outranks
\* the record a poll chooses for transmission.
C32_MaximumChosen ==
    /\ CmpIsTotalOrder
    /\ [][ (op'.name = "poll" /\ IsHeapState(state)) =>
             \A n \in DOMAIN sent_now' :
                LET q == QueueAtSend(to_send, sent_now', n)
                IN  \A r \in DOMAIN q :
                       ~Outranks(q[r], RecOf(q, sent_now'[n]))
         ]_vars

\* C32: a poll in Normal transmitted a record that had been sent before
\* while a record sent after it, with a smaller p_id, stayed in the queue.
C32_OlderLastChosen ==
    /\ op.name = "poll" /\ op.from = "Normal"
    /\ \E i, j \in DOMAIN to_send :
          /\ Key(to_send[i]) \in SeqToSet(sent_now)
          /\ Key(to_send[j]) \notin SeqToSet(sent_now)
          /\ to_send[i].tries > 1
          /\ to_send[j].tries > 0
          /\ to_send[j].p_id < to_send[i].p_id

\* The packets of a buffer are in the order they arrived in.
InArrivalOrder(buffer) ==
    \A i, j \in DOMAIN buffer : i < j => buffer[i].n < buffer[j].n

\* The packet the distributor got from its inner stream in this step.
Arrival == Packet(arrived', dist_op'.packet.p_type)

\* The distributor has put the arrival into its place and nowhere else:
\* at the back of the command buffer, at the back of the voice buffer or
\* on its own output.
Routed(to_command, to_voice, to_output) ==
    /\ command_buffer_stream' = IF to_command
                                THEN Append(command_buffer_stream, Arrival)
                                ELSE command_buffer_stream
    /\ voice_buffer_stream' = IF to_voice
                              THEN Append(voice_buffer_stream, Arrival)
                              ELSE voice_buffer_stream
    /\ forwarded' = IF to_output THEN Append(forwarded, Arrival)
                    ELSE forwarded
    /\ to_output <=> dist_op'.res = "Ready(Some)"
    /\ InArrivalOrder(command_buffer_stream')
    /\ InArrivalOrder(voice_buffer_stream')
    /\ InArrivalOrder(forwarded')

\* C33 as stated: the distributor appends every Command and CommandLow
\* packet to the command buffer and every Voice and VoiceWhisper packet to
\* the voice buffer, in arrival order, forwards a packet of any other type
\* unchanged on its own output, and puts no packet in two places.
C33_EveryPacketRouted ==
    [][ arrived' = arrived + 1 =>
          LET p_type == Arrival.p_type IN
          /\ dist_op'.packet = Arrival
          /\ Routed(p_type \in {"Command", "CommandLow"},
                    p_type \in {"Voice", "VoiceWhisper"},
                    p_type \notin {"Command", "CommandLow", "Voice",
                                   "VoiceWhisper"})
      ]_vars

\* C33 amended: as stated, except that a Command, CommandLow, Voice or
\* VoiceWhisper packet whose buffer already holds STREAM_BUFFER_MAX_SIZE
\* packets is put nowhere.
C33_RoutedUnlessFull ==
    [][ arrived' = arrived + 1 =>
          LET p_type == Arrival.p_type IN
          /\ dist_op'.packet = Arrival
          /\ Routed(/\ p_type \in {"Command", "CommandLow"}
                    /\ Len(command_buffer_stream) < STREAM_BUFFER_MAX_SIZE,
                    /\ p_type \in {"Voice", "VoiceWhisper"}
                    /\ Len(voice_buffer_stream) < STREAM_BUFFER_MAX_SIZE,
                    p_type \notin {"Command", "CommandLow", "Voice",
                                   "VoiceWhisper"})
      ]_vars

\* C33: the distributor has filled the command buffer with a Command and a
\* CommandLow packet, put a VoiceWhisper packet into the voice buffer and
\* forwarded a packet of another type.
C33_AllRouted ==
    /\ {command_buffer_stream[i].p_type : i \in DOMAIN command_buffer_stream}
          = {"Command", "CommandLow"}
    /\ \E i \in DOMAIN voice_buffer_stream :
          voice_buffer_stream[i].p_type = "VoiceWhisper"
    /\ forwarded # << >>
    /\ arrived = MaxArrivals

\* The buffer the arrival of this step belongs in, << >> if it has none.
BufferOfArrival ==
    IF buffer_stream_of(Arrival.p_type) = "command_buffer_stream"
    THEN command_buffer_stream
    ELSE IF buffer_stream_of(Arrival.p_type) = "voice_buffer_stream"
    THEN voice_buffer_stream
    ELSE << >>

\* C34: the command and the voice buffer never hold more than
\* STREAM_BUFFER_MAX_SIZE packets; a packet that arrives for a full buffer
\* is dropped: the buffers and the output stay as they were, the stream of
\* the distributor neither ends nor fails, the Connection stays and the
\* distributor is scheduled for the next packet.
C34_FullBufferDrops ==
    [][ /\ Len(command_buffer_stream') <= STREAM_BUFFER_MAX_SIZE
        /\ Len(voice_buffer_stream') <= STREAM_BUFFER_MAX_SIZE
        /\ (/\ arrived' = arrived + 1
            /\ Len(BufferOfArrival) = STREAM_BUFFER_MAX_SIZE) =>
               /\ command_buffer_stream' = command_buffer_stream
               /\ voice_buffer_stream' = voice_buffer_stream
               /\ forwarded' = forwarded
               /\ dist_op'.res = "NotReady"
               /\ ~dist_done' /\ dist_notified'
               /\ con_rc' /\ con_alive'
      ]_vars

\* C34: the last packet arrived for the full voice buffer and is not in it,
\* and the distributor is scheduled again.
C34_DroppedNewest ==
    /\ dist_op.to = "voice_buffer_stream"
    /\ dist_op.packet.n = arrived
    /\ Len(voice_buffer_stream) = STREAM_BUFFER_MAX_SIZE
    /\ \A i \in DOMAIN voice_buffer_stream :
          voice_buffer_stream[i] # dist_op.packet
    /\ dist_notified /\ ~dist_done /\ con_rc

\* C35: once the Connection is destroyed, the stream of a distributor that
\* was started ends and the ResendFuture resolves.
C35_TasksFinish ==
    /\ (~con_rc /\ dist_op.res # "new") ~> dist_done
    /\ (~con_rc) ~> fut_done

\* C35: the Connection was destroyed while the distributor and the
\* ResendFuture were parked; both were woken and have finished, the
\* distributor because its weak reference did not upgrade.
C35_BothFinished ==
    /\ ~con_rc
    /\ distributor_task /\ dist_done /\ ~dist_notified
    /\ dist_op = DistOp("None", NoPacket, "None", "Ready(None)")
    /\ resender_future_task /\ fut_done
    /\ op.res = "Ready"

\* The handshakes that have resolved and whose connection is in the map.
Registered == {connections[id] : id \in DOMAIN connections}

\* C36: a handshake that resolves picks an id that is no key of the map and
\* is at once the key of its own connection, every other entry staying as
\* it was; so the ids of the connections in the map are distinct, and each
\* key holds the connection of the handshake that resolved with it.
C36_AtomicIdChoice ==
    [][ /\ \A c \in Conns :
              (handshake[c] # "done" /\ handshake'[c] = "done") =>
                 /\ resolved_id'[c] \notin DOMAIN connections
                 /\ \A b \in Registered : resolved_id[b] # resolved_id'[c]
                 /\ connections' =
                       insert(connections, resolved_id'[c], c)
                 /\ \A b \in Conns \ {c} : resolved_id'[b] = resolved_id[b]
        /\ \A id \in DOMAIN connections' :
              /\ handshake'[connections'[id]] = "done"
              /\ resolved_id'[connections'[id]] = id
        /\ \A a, b \in Registered' :
              a # b => resolved_id'[a] # resolved_id'[b]
      ]_vars

\* C36: the handshakes of three add_connection calls were in flight
\* together and resolved in another order than they were numbered; each has
\* its own id.
C36_ThreeResolved ==
    /\ DOMAIN connections = {0, 1, 2}
    /\ connections[0] = 3 /\ connections[1] = 1 /\ connections[2] = 2
    /\ cm_op.name = "add_connection" /\ cm_op.keys = {0, 1}

\* How often the packet with key k is in the queue q.
Count(q, k) == Cardinality({i \in DOMAIN q : Key(q[i]) = k})

\* The queue after the step holds the packets of the queue before it and
\* `more` packets with key k in addition (-1: one less).
QueueChanged(k, more) ==
    \A j \in AllKeys :
        Count(to_send', j) = Count(to_send, j) + (IF j = k THEN more ELSE 0)

\* C37: while the connection lives, the multiset of queued packets changes
\* only by an accepted start_send, which adds one record, and by a matching
\* ack, which removes the acknowledged record; handle_event, the switch to
\* Normal on an ack in Stalling, Dead -> Stalling on ingress, Stalling ->
\* Dead on timeout and Normal -> Stalling lose and duplicate nothing.
C37_QueuePreserved ==
    [][ con_alive' =>
          IF op'.name = "start_send" /\ op'.res = "Ready"
          THEN /\ Len(to_send') = Len(to_send) + 1
               /\ \E k \in AllKeys : QueueChanged(k, 1)
          ELSE IF op'.name = "ack_packet" /\ op'.res = "removed"
          THEN QueueChanged(CalledKey, -1)
          ELSE QueueChanged(CHOOSE k \in AllKeys : TRUE, 0)
      ]_vars

\* C37: handle_event found two records in the vector of Stalling and the
\* heap of the new state holds both.
C37_KeptAcrossEvent ==
    /\ op.name = "handle_event" /\ op.from = "Stalling"
    /\ IsHeapState(state)
    /\ Cardinality(Keys(to_send)) = 2

\* start_send resets the start time exactly when it is accepted in
\* Connecting or Disconnecting, and entering a state by handle_event
\* starts its time.
StartTimeMoves ==
    /\ op'.name = "start_send" =>
          start_time' = IF /\ op'.res = "Ready"
                           /\ state \in {"Connecting", "Disconnecting"}
                        THEN 0 ELSE start_time
    /\ op'.name = "handle_event" => start_time' = 0

\* The poll of this step ends the connection exactly if the timeout of the
\* state has elapsed since its start time.
EndsWhenElapsed ==
    ~con_alive' <=>
        start_time >= (IF state = "Connecting" THEN config.connecting_timeout
                       ELSE config.disconnect_timeout)

\* C38 as stated: in Connecting and Disconnecting every accepted start_send
\* resets the start time and a refused one does not, in Stalling and Dead
\* no start_send moves it, and every poll of the ResendFuture in Connecting
\* or Disconnecting ends the connection if the timeout of the state has
\* elapsed since the start time, and only then.
C38_EndsAtFirstPoll ==
    [][ /\ StartTimeMoves
        /\ (/\ op'.name = "poll" /\ con_alive
            /\ state \in {"Connecting", "Disconnecting"}) => EndsWhenElapsed
      ]_vars

\* C38 amended: the same for every poll that gets to the check of the
\* state, that is, does not return early because the udp sink has not
\* flushed the packet it took (is_sending and poll_complete NotReady).
C38_EndsAtFirstFlushedPoll ==
    [][ /\ StartTimeMoves
        /\ (/\ op'.name = "poll" /\ con_alive
            /\ state \in {"Connecting", "Disconnecting"}
            /\ op'.res # "sending") => EndsWhenElapsed
      ]_vars

\* C38: a poll has ended the connection in Disconnecting, whose queue was
\* full, so that a start_send had been refused there.
C38_EndedAfterTimeout ==
    /\ ~con_alive
    /\ op.name = "poll" /\ op.res = "EndConnection"
    /\ op.from = "Disconnecting"
    /\ start_time >= config.disconnect_timeout
    /\ \E p \in Producers : pstate[p] = "parked"

\* The producer tasks that are parked by backpressure.
Parked == {p \in Producers : pstate[p] = "parked"}

\* C39: every parked producer is woken by the next ack_packet call, and
\* also by the end of the connection when it is still parked then.
C39_ParkedAreWoken ==
    [][ /\ op'.name = "ack_packet" =>
              \A p \in Parked : pstate'[p] = "woken"
        /\ (con_alive /\ ~con_alive') =>
              \A p \in Parked : pstate'[p] = "woken"
      ]_vars

\* C39: the connection has ended and a producer is still parked, with its
\* task in the resender_task of a resender that no longer exists.
C39_ParkedOnDeadQueue ==
    /\ ~con_alive
    /\ \E p \in Parked : p \in resender_task

\* C40: start_send, poll_complete and close on a UdpPackets or Packets
\* facade whose Connection no longer exists return an error value and do
\* not panic.
C40_SinkAfterDropIsError ==
    (/\ fac_op.f \in Facades
     /\ fac_op.name \in SinkOps
     /\ ~fac_op.alive) => fac_op.res = "Err"

\* C40: start_send on a Packets facade has panicked after the Connection
\* was dropped.
C40_PanicAfterDrop ==
    /\ ~con_rc
    /\ fac_op.f = "Packets"
    /\ fac_op.name = "start_send"
    /\ ~fac_op.alive
    /\ fac_op.res = "panic"

====
